---- MODULE Spec2Model ----
(***************************************************************************)
(* DualMind: the extractive summarization core of PDFProcessor             *)
(* (src/services/pdf_processor.py), the reading-time helper of             *)
(* src/utils/helpers.py and the task plumbing of the main window           *)
(* (src/main.py).                                                          *)
(*                                                                         *)
(* Python strings are TLA+ strings; TLC evaluates Len, SubSeq and \o on    *)
(* them, so a text is scanned character by character as the code does.     *)
(***************************************************************************)
EXTENDS Integers, Sequences, FiniteSets, TLC

VARIABLES
    \* ---- the summarization core: arguments and return value of one call
    text,                \* the text argument (a string)
    sentences,           \* the sentence-list argument of _extract_important_sentences
    word_count,          \* the word_count argument of _estimate_reading_time
    result,              \* the value returned by the call
    locals,              \* local variables of the call at its return that claims speak of
    pc,                  \* "input" before the call, then the name of the function called
    \* ---- the main window and its worker threads
    youtube_process_btn, \* isEnabled() of the "Start Transcription" button
    pdf_process_btn,     \* isEnabled() of the "Analyze PDF" button
    selected_pdf_path,   \* "" while the attribute is not set, else the chosen path
    progress_bar,        \* value() of the progress bar
    threads,             \* the ProcessingThread objects started so far, in start order
    signals,             \* signals emitted by worker threads, queued to the GUI thread
    app                  \* "running", or "aborted" once the process has been killed

coreVars == <<text, sentences, word_count, result, locals, pc>>
guiVars == <<youtube_process_btn, pdf_process_btn, selected_pdf_path, progress_bar,
             threads, signals, app>>
vars == <<text, sentences, word_count, result, locals, pc,
          youtube_process_btn, pdf_process_btn, selected_pdf_path, progress_bar,
          threads, signals, app>>

(***************************************************************************)
(* Python string primitives                                                *)
(***************************************************************************)

\* s[i-1] of Python, as a one-character string
Char(s, i) == SubSeq(s, i, i)

\* the characters str.strip() and str.split() treat as whitespace
Whitespace == {" ", "\t", "\n", "\r"}

UpperCase == <<"A", "B", "C", "D", "E", "F", "G", "H", "I", "J", "K", "L", "M",
               "N", "O", "P", "Q", "R", "S", "T", "U", "V", "W", "X", "Y", "Z">>
LowerCase == <<"a", "b", "c", "d", "e", "f", "g", "h", "i", "j", "k", "l", "m",
               "n", "o", "p", "q", "r", "s", "t", "u", "v", "w", "x", "y", "z">>
Digits == {"0", "1", "2", "3", "4", "5", "6", "7", "8", "9"}

\* the lowercase letter of each uppercase letter
LowerOf ==
    [c \in {UpperCase[k] : k \in 1..Len(UpperCase)} |->
        LowerCase[CHOOSE k \in 1..Len(UpperCase) : UpperCase[k] = c]]

\* str.lower() on one character
LowerChar(c) == IF c \in DOMAIN LowerOf THEN LowerOf[c] ELSE c

RECURSIVE ConcatRange(_, _, _)
\* the concatenation of seq[a..b], halving the range
ConcatRange(seq, a, b) ==
    IF a > b THEN ""
    ELSE IF a = b THEN seq[a]
    ELSE LET m == (a + b) \div 2
         IN  ConcatRange(seq, a, m) \o ConcatRange(seq, m + 1, b)

\* ''.join(seq)
Join(seq) == ConcatRange(seq, 1, Len(seq))

\* str.lower()
lower(s) == Join([k \in 1..Len(s) |-> LowerChar(Char(s, k))])

RECURSIVE lstrip_chars(_, _)
lstrip_chars(s, chars) ==
    IF s # "" /\ Char(s, 1) \in chars
    THEN lstrip_chars(SubSeq(s, 2, Len(s)), chars)
    ELSE s

RECURSIVE rstrip_chars(_, _)
\* str.rstrip(chars)
rstrip_chars(s, chars) ==
    IF s # "" /\ Char(s, Len(s)) \in chars
    THEN rstrip_chars(SubSeq(s, 1, Len(s) - 1), chars)
    ELSE s

\* str.strip(chars)
strip_chars(s, chars) == rstrip_chars(lstrip_chars(s, chars), chars)

\* str.strip()
strip(s) == strip_chars(s, Whitespace)

\* `k in s` for strings
Contains(s, k) ==
    \E i \in 1..(Len(s) - Len(k) + 1) : SubSeq(s, i, i + Len(k) - 1) = k

\* s.startswith(k)
startswith(s, k) == Len(k) <= Len(s) /\ SubSeq(s, 1, Len(k)) = k

\* any(k in s for k in ks), ks a sequence of strings
ContainsAny(s, ks) == \E n \in 1..Len(ks) : Contains(s, ks[n])

\* the index of the first character at or after i that is not in chars (Len(s)+1 if none)
SkipChars(s, i, chars) ==
    CHOOSE j \in i..(Len(s) + 1) :
        /\ j = Len(s) + 1 \/ Char(s, j) \notin chars
        /\ \A k \in i..(j - 1) : Char(s, k) \in chars

\* the index of the first character at or after i that is in chars (Len(s)+1 if none)
FindChars(s, i, chars) ==
    CHOOSE j \in i..(Len(s) + 1) :
        /\ j = Len(s) + 1 \/ Char(s, j) \in chars
        /\ \A k \in i..(j - 1) : Char(s, k) \notin chars

\* the indices 1..Len(s) at which a run of characters of chars starts
RunStarts(s, chars) ==
    SelectSeq([k \in 1..Len(s) |-> k],
              LAMBDA i : Char(s, i) \in chars /\ (i = 1 \/ Char(s, i - 1) \notin chars))

\* the indices 1..Len(s) at which a run of characters not of chars starts
WordStarts(s, chars) ==
    SelectSeq([k \in 1..Len(s) |-> k],
              LAMBDA i : Char(s, i) \notin chars /\ (i = 1 \/ Char(s, i - 1) \in chars))

\* str.split(): the maximal runs of non-whitespace characters
split(s) ==
    LET starts == WordStarts(s, Whitespace)
    IN  [r \in 1..Len(starts) |->
            SubSeq(s, starts[r], FindChars(s, starts[r], Whitespace) - 1)]

\* a delimiter class that holds the period only
PeriodOnly == {"."}

\* the characters of the regex class [.!?]
SentenceDelimiters == {".", "!", "?"}

\* re.split(r'[chars]+', s): the piece before the first run of the characters
\* and the piece after each run, empty pieces at the ends included
re_split(s, chars) ==
    LET runs == RunStarts(s, chars)
        after(r) == SkipChars(s, runs[r], chars)
    IN  <<SubSeq(s, 1, FindChars(s, 1, chars) - 1)>>
            \o [r \in 1..Len(runs) |-> SubSeq(s, after(r), FindChars(s, after(r), chars) - 1)]

\* the concatenation of the first n strings of a sequence
Concat(seq, n) == ConcatRange(seq, 1, n)

\* the sequences of at most n elements of S
SeqsUpTo(S, n) == UNION {[1..k -> S] : k \in 0..n}

(***************************************************************************)
(* Sentence Segmenter                                                      *)
(***************************************************************************)

\* the fragment threshold of _split_into_sentences
MinSentenceLen == 10

\* _split_into_sentences with the length test applied to the untrimmed piece
SplitUntrimmedLength(t) ==
    LET pieces == re_split(t, SentenceDelimiters)
        kept == SelectSeq(pieces, LAMBDA s : strip(s) # "" /\ Len(s) > MinSentenceLen)
    IN  [k \in 1..Len(kept) |-> strip(kept[k])]

\* PDFProcessor._split_into_sentences
_split_into_sentences(t) ==
    LET pieces == re_split(t, SentenceDelimiters)
        kept == SelectSeq(pieces,
                          LAMBDA s : strip(s) # "" /\ Len(strip(s)) > MinSentenceLen)
    IN  [k \in 1..Len(kept) |-> strip(kept[k])]

(***************************************************************************)
(* Idle values of the two halves of the state                              *)
(***************************************************************************)

CoreIdle ==
    /\ text = ""
    /\ sentences = <<>>
    /\ word_count = 0
    /\ result = <<>>
    /\ locals = <<>>
    /\ pc = "input"

GuiIdle ==
    /\ youtube_process_btn = TRUE
    /\ pdf_process_btn = FALSE
    /\ selected_pdf_path = ""
    /\ progress_bar = -1
    /\ threads = <<>>
    /\ signals = <<>>
    /\ app = "running"

(***************************************************************************)
(* SpecSentences: one call of _split_into_sentences                        *)
(***************************************************************************)

\* the pieces the texts of SpecSentences are assembled from
SegmenterPieces == {"abcdefghij", "k", " ", ".", "!?"}

\* how many pieces a text of SpecSentences is assembled from, at most
MaxSegmenterPieces == 5

SegmenterTexts ==
    {Concat(p, Len(p)) : p \in SeqsUpTo(SegmenterPieces, MaxSegmenterPieces)}

InitSentences ==
    /\ text \in SegmenterTexts
    /\ sentences = <<>>
    /\ word_count = 0
    /\ result = <<>>
    /\ locals = <<>>
    /\ pc = "input"
    /\ GuiIdle

CallSplitIntoSentences ==
    /\ pc = "input"
    /\ pc' = "_split_into_sentences"
    /\ result' = _split_into_sentences(text)
    /\ locals' = <<>>
    /\ UNCHANGED <<text, sentences, word_count>>
    /\ UNCHANGED guiVars

NextSentences == CallSplitIntoSentences

SpecSentences == InitSentences /\ [][NextSentences]_vars

(***************************************************************************)
(* C5                                                                      *)
(***************************************************************************)

RECURSIVE Ascending(_)
\* the elements of a finite set of integers, in ascending order
Ascending(S) ==
    IF S = {} THEN <<>>
    ELSE LET m == CHOOSE x \in S : \A y \in S : x <= y
         IN  <<m>> \o Ascending(S \ {m})

IsDelimiterAt(t, i) == Char(t, i) \in SentenceDelimiters

\* where a piece between runs of '.', '!', '?' starts
CandidateStarts(t) ==
    {i \in 1..Len(t) : ~IsDelimiterAt(t, i) /\ (i = 1 \/ IsDelimiterAt(t, i - 1))}

\* where the piece starting at i ends
CandidateEnd(t, i) ==
    CHOOSE j \in i..Len(t) :
        /\ \A k \in i..j : ~IsDelimiterAt(t, k)
        /\ j = Len(t) \/ IsDelimiterAt(t, j + 1)

\* the trimmed candidates of a text, in their order in the text
TrimmedCandidates(t) ==
    LET starts == Ascending(CandidateStarts(t))
    IN  [k \in 1..Len(starts) |-> strip(SubSeq(t, starts[k], CandidateEnd(t, starts[k])))]

\* C5: _split_into_sentences returns exactly the trimmed candidates (the pieces
\* between runs of '.', '!', '?') whose trimmed length exceeds 10, in their
\* original order; no returned sentence has length 10 or less, and the empty
\* text yields the empty sequence.
C5_SegmenterKeepsLongCandidates ==
    pc = "_split_into_sentences" =>
        /\ result = SelectSeq(TrimmedCandidates(text), LAMBDA s : Len(s) > 10)
        /\ \A k \in 1..Len(result) : Len(result[k]) > 10
        /\ text = "" => result = <<>>

\* a text with a kept sentence and a discarded non-empty fragment has been segmented
C5_Witness ==
    /\ pc = "_split_into_sentences"
    /\ Len(result) >= 1
    /\ \E k \in 1..Len(TrimmedCandidates(text)) :
          /\ TrimmedCandidates(text)[k] # ""
          /\ Len(TrimmedCandidates(text)[k]) <= 10

(***************************************************************************)
(* Reading time                                                            *)
(*                                                                         *)
(* word_count / avg_wpm is a double.  For the word counts of the model     *)
(* the comparisons of the code on these doubles agree with the integer     *)
(* comparisons below: minutes < 1 iff word_count < 200, minutes < 60 iff   *)
(* word_count < 12000, int(minutes) is the integer quotient, and           *)
(* minutes != 1, hours != 1 fail at 200 and 12000 words only.              *)
(***************************************************************************)

\* avg_wpm of _estimate_reading_time, and the default wpm of Utils.estimate_reading_time
avg_wpm == 200

\* the minutes of an hour: the branch bound `minutes < 60` and the divisor of `minutes / 60`
MinutesPerHour == 60

\* PDFProcessor._get_time_labels
_get_time_labels ==
    [less_than_minute |-> "Less than 1 minute", minutes |-> "minutes", hours |-> "hours"]

\* the tenths shown by f"{hours:.1f}" for hours = word_count / avg_wpm / 60: the
\* nearest tenth.  A count halfway between two tenths (600 more than a
\* multiple of 1200) is rounded by the binary value of the double; the first
\* such count in the hours branch is 12600, beyond the counts of the model.
HoursTenths(wc) ==
    ((10 * wc) + ((avg_wpm * MinutesPerHour) \div 2)) \div (avg_wpm * MinutesPerHour)

\* f"{hours:.1f}"
FormatOneDecimal(tenths) == ToString(tenths \div 10) \o "." \o ToString(tenths % 10)

\* _estimate_reading_time with the minutes branch taken up to and including 60 minutes
EstimateHoursAboveSixtyOnly(wc) ==
    IF wc < avg_wpm THEN _get_time_labels.less_than_minute
    ELSE IF wc <= avg_wpm * MinutesPerHour
    THEN LET minutes_int == wc \div avg_wpm
         IN  ToString(minutes_int) \o " minute" \o (IF minutes_int # 1 THEN "s" ELSE "")
    ELSE FormatOneDecimal(HoursTenths(wc)) \o " hour"
             \o (IF wc # avg_wpm * MinutesPerHour THEN "s" ELSE "")

\* PDFProcessor._estimate_reading_time
_estimate_reading_time(wc) ==
    IF wc < avg_wpm THEN _get_time_labels.less_than_minute
    ELSE IF wc < avg_wpm * MinutesPerHour
    THEN LET minutes_int == wc \div avg_wpm
         IN  ToString(minutes_int) \o " minute" \o (IF minutes_int # 1 THEN "s" ELSE "")
    ELSE FormatOneDecimal(HoursTenths(wc)) \o " hour"
             \o (IF wc # avg_wpm * MinutesPerHour THEN "s" ELSE "")

\* Utils.estimate_reading_time, as a function of Utils.word_count(text), the
\* only thing it reads of its text argument
estimate_reading_time(wc) ==
    IF wc < avg_wpm THEN "< 1 minute"
    ELSE IF wc < avg_wpm * MinutesPerHour
    THEN ToString(wc \div avg_wpm) \o " minute" \o (IF wc # avg_wpm THEN "s" ELSE "")
    ELSE FormatOneDecimal(HoursTenths(wc)) \o " hour"
             \o (IF wc # avg_wpm * MinutesPerHour THEN "s" ELSE "")

(***************************************************************************)
(* SpecReadingTime: one call of either reading-time estimate               *)
(***************************************************************************)

\* the largest word count of SpecReadingTime
MaxWordCount == 12400

InitReadingTime ==
    /\ text = ""
    /\ sentences = <<>>
    /\ word_count \in 0..MaxWordCount
    /\ result = <<>>
    /\ locals = <<>>
    /\ pc = "input"
    /\ GuiIdle

CallEstimateReadingTime ==
    /\ pc = "input"
    /\ pc' = "_estimate_reading_time"
    /\ result' = _estimate_reading_time(word_count)
    /\ locals' = <<>>
    /\ UNCHANGED <<text, sentences, word_count>>
    /\ UNCHANGED guiVars

CallUtilsEstimateReadingTime ==
    /\ pc = "input"
    /\ pc' = "Utils.estimate_reading_time"
    /\ result' = estimate_reading_time(word_count)
    /\ locals' = <<>>
    /\ UNCHANGED <<text, sentences, word_count>>
    /\ UNCHANGED guiVars

NextReadingTime == CallEstimateReadingTime \/ CallUtilsEstimateReadingTime

SpecReadingTime == InitReadingTime /\ [][NextReadingTime]_vars

(***************************************************************************)
(* C6, C7                                                                  *)
(***************************************************************************)

ReadingTimeReturned == pc \in {"_estimate_reading_time", "Utils.estimate_reading_time"}

\* C6 as stated: the reading-time estimate is "< 1 minute" for every word count
\* below 200, "1 minute" for 200 words and "1.0 hour" for 12000 words.
C6_Original ==
    ReadingTimeReturned =>
        /\ word_count < 200 => result = "< 1 minute"
        /\ word_count = 200 => result = "1 minute"
        /\ word_count = 12000 => result = "1.0 hour"

\* C6, amended: for every word count below 200 the estimate of the summary
\* (_estimate_reading_time) is the label "Less than 1 minute" and the estimate
\* of Utils.estimate_reading_time is "< 1 minute"; both are "1 minute" for 200
\* words and "1.0 hour" for 12000 words.
C6_ReadingTimeExamples ==
    ReadingTimeReturned =>
        /\ word_count < 200 =>
              result = (IF pc = "_estimate_reading_time"
                        THEN "Less than 1 minute" ELSE "< 1 minute")
        /\ word_count = 200 => result = "1 minute"
        /\ word_count = 12000 => result = "1.0 hour"

\* the summary's estimate has been computed for 12000 words
C6_Witness ==
    /\ pc = "_estimate_reading_time"
    /\ word_count = 12000
    /\ result = "1.0 hour"

\* the numeral and the unit of an estimate "<numeral> <unit>"
ShownNumeral(estimate) == split(estimate)[1]
ShownUnit(estimate) == split(estimate)[2]

\* C7: whenever the estimate is a numeral followed by a unit (word counts of
\* 200 and more), the unit is singular ("minute", "hour") exactly when the
\* numeral shown is "1" or "1.0", and plural for every other numeral.
C7_UnitAgreesWithShownNumeral ==
    (ReadingTimeReturned /\ word_count >= 200) =>
        /\ ShownUnit(result) \in {"minute", "minutes", "hour", "hours"}
        /\ ShownUnit(result) \in {"minute", "hour"}
              <=> ShownNumeral(result) \in {"1", "1.0"}

(***************************************************************************)
(* Document Classifier                                                     *)
(***************************************************************************)

RECURSIVE SumRange(_, _, _)
\* f[a] + ... + f[b], halving the range
SumRange(f, a, b) ==
    IF a > b THEN 0
    ELSE IF a = b THEN f[a]
    ELSE LET m == (a + b) \div 2
         IN  SumRange(f, a, m) + SumRange(f, m + 1, b)

\* sum(f[k] for k in 1..n)
SumOver(f, n) == SumRange(f, 1, n)

\* the characters word.strip('.,!?;:') removes from both ends of a word
WordPunctuation == {".", ",", "!", "?", ";", ":"}

\* a word longer than this many characters counts as a technical term
TechnicalWordLen == 8

\* _assess_complexity with the technical-term test on the punctuation-stripped word
AssessComplexityStrippedTechnical(t) ==
    LET words == split(t)
        n == Len(words)
        total == SumOver([k \in 1..n |-> Len(strip_chars(words[k], WordPunctuation))], n)
        technical_terms ==
            SumOver([k \in 1..n |->
                       IF Len(strip_chars(words[k], WordPunctuation)) > TechnicalWordLen
                       THEN 1 ELSE 0], n)
    IN  IF n = 0 THEN "Unknown"
        ELSE IF total > 6 * n \/ 100 * technical_terms > 15 * n
        THEN "High (Technical/Specialized)"
        ELSE IF total > 5 * n \/ 100 * technical_terms > 8 * n
        THEN "Medium (Professional)"
        ELSE "Low (General Audience)"

\* _assess_complexity with the High and Low labels exchanged
AssessComplexityLabelsExchanged(t) ==
    LET words == split(t)
        n == Len(words)
        total == SumOver([k \in 1..n |-> Len(strip_chars(words[k], WordPunctuation))], n)
        technical_terms ==
            SumOver([k \in 1..n |-> IF Len(words[k]) > TechnicalWordLen THEN 1 ELSE 0], n)
    IN  IF n = 0 THEN "Unknown"
        ELSE IF total > 6 * n \/ 100 * technical_terms > 15 * n
        THEN "Low (General Audience)"
        ELSE IF total > 5 * n \/ 100 * technical_terms > 8 * n
        THEN "Medium (Professional)"
        ELSE "High (Technical/Specialized)"

\* PDFProcessor._assess_complexity.  avg_word_length = total / n and
\* technical_ratio = technical_terms / n are doubles; avg_word_length > 6 holds
\* iff total > 6 n, and technical_ratio > 0.15 iff 100 technical_terms > 15 n
\* (a quotient equal to 0.15 rounds to the double the literal 0.15 denotes),
\* likewise for 5 and 0.08.
_assess_complexity(t) ==
    LET words == split(t)
        n == Len(words)
        total == SumOver([k \in 1..n |-> Len(strip_chars(words[k], WordPunctuation))], n)
        technical_terms ==
            SumOver([k \in 1..n |-> IF Len(words[k]) > TechnicalWordLen THEN 1 ELSE 0], n)
    IN  IF n = 0 THEN "Unknown"
        ELSE IF total > 6 * n \/ 100 * technical_terms > 15 * n
        THEN "High (Technical/Specialized)"
        ELSE IF total > 5 * n \/ 100 * technical_terms > 8 * n
        THEN "Medium (Professional)"
        ELSE "Low (General Audience)"

\* the keyword lists of _identify_document_type, in the order they are tested
DocumentTypeKeywords ==
    << <<"research", "study", "methodology", "hypothesis">>,
       <<"report", "analysis", "assessment", "evaluation">>,
       <<"manual", "guide", "instructions", "tutorial">>,
       <<"proposal", "plan", "strategy", "roadmap">>,
       <<"policy", "procedure", "regulation", "compliance">> >>

\* the labels _identify_document_type returns for the lists above
DocumentTypeLabels ==
    <<"Research Paper/Study", "Report/Analysis", "Manual/Guide", "Proposal/Plan",
      "Policy/Procedure">>

\* _identify_document_type with the Manual/Guide test ahead of the Report/Analysis test
IdentifyManualBeforeReport(t) ==
    LET text_lower == lower(t)
    IN  IF ContainsAny(text_lower, DocumentTypeKeywords[1]) THEN DocumentTypeLabels[1]
        ELSE IF ContainsAny(text_lower, DocumentTypeKeywords[3]) THEN DocumentTypeLabels[3]
        ELSE IF ContainsAny(text_lower, DocumentTypeKeywords[2]) THEN DocumentTypeLabels[2]
        ELSE IF ContainsAny(text_lower, DocumentTypeKeywords[4]) THEN DocumentTypeLabels[4]
        ELSE IF ContainsAny(text_lower, DocumentTypeKeywords[5]) THEN DocumentTypeLabels[5]
        ELSE "General Document"

\* PDFProcessor._identify_document_type
_identify_document_type(t) ==
    LET text_lower == lower(t)
    IN  IF ContainsAny(text_lower, DocumentTypeKeywords[1]) THEN DocumentTypeLabels[1]
        ELSE IF ContainsAny(text_lower, DocumentTypeKeywords[2]) THEN DocumentTypeLabels[2]
        ELSE IF ContainsAny(text_lower, DocumentTypeKeywords[3]) THEN DocumentTypeLabels[3]
        ELSE IF ContainsAny(text_lower, DocumentTypeKeywords[4]) THEN DocumentTypeLabels[4]
        ELSE IF ContainsAny(text_lower, DocumentTypeKeywords[5]) THEN DocumentTypeLabels[5]
        ELSE "General Document"

(***************************************************************************)
(* SpecComplexity: one call of _assess_complexity                          *)
(***************************************************************************)

RECURSIVE Repeat(_, _)
\* n copies of a string
Repeat(s, n) == IF n = 0 THEN "" ELSE s \o Repeat(s, n - 1)

\* the words the texts of SpecComplexity repeat, each followed by a space:
\* 2 letters; 7 letters; 9 letters; 11 letters; 9 characters of which 8 are letters
ComplexityWords == <<"to ", "network ", "algorithm ", "specialized ", "analysis: ">>

\* how many copies of the short word a text of SpecComplexity holds, at most
MaxShortWords == 14

\* how many copies of each longer word a text of SpecComplexity holds, at most
MaxLongWords == 3

\* how many spaces a text of SpecComplexity starts with, at most
MaxLeadingSpaces == 1

ComplexityTexts ==
    {Repeat(" ", p) \o Repeat(ComplexityWords[1], a) \o Repeat(ComplexityWords[2], b)
        \o Repeat(ComplexityWords[3], c) \o Repeat(ComplexityWords[4], d)
        \o Repeat(ComplexityWords[5], e) :
            p \in 0..MaxLeadingSpaces, a \in 0..MaxShortWords, b \in 0..MaxLongWords,
            c \in 0..MaxLongWords, d \in 0..MaxLongWords, e \in 0..MaxLongWords}

InitComplexity ==
    /\ text \in ComplexityTexts
    /\ sentences = <<>>
    /\ word_count = 0
    /\ result = <<>>
    /\ locals = <<>>
    /\ pc = "input"
    /\ GuiIdle

CallAssessComplexity ==
    /\ pc = "input"
    /\ pc' = "_assess_complexity"
    /\ result' = _assess_complexity(text)
    /\ locals' = <<>>
    /\ UNCHANGED <<text, sentences, word_count>>
    /\ UNCHANGED guiVars

NextComplexity == CallAssessComplexity

SpecComplexity == InitComplexity /\ [][NextComplexity]_vars

(***************************************************************************)
(* C8, C9                                                                  *)
(***************************************************************************)

\* the sum of the punctuation-stripped lengths of a list of words, and the
\* number of them longer than 8 characters
StrippedLengthSum(words) ==
    SumOver([k \in 1..Len(words) |-> Len(strip_chars(words[k], WordPunctuation))],
            Len(words))
LongWordCount(words) == Cardinality({k \in 1..Len(words) : Len(words[k]) > 8})

\* the tier the claim gives a non-empty list of words, with
\* mean > m iff sum > m * n and fraction > p / 100 iff 100 * count > p * n
ClaimedTier(words) ==
    LET n == Len(words)
        total == StrippedLengthSum(words)
        long == LongWordCount(words)
    IN  IF total > 6 * n \/ 100 * long > 15 * n THEN "High (Technical/Specialized)"
        ELSE IF total > 5 * n \/ 100 * long > 8 * n THEN "Medium (Professional)"
        ELSE "Low (General Audience)"

\* C8: _assess_complexity returns "Unknown" when the text has no words;
\* otherwise the High tier iff the mean punctuation-stripped word length is
\* > 6 or the fraction of words longer than 8 characters is > 0.15, else the
\* Medium tier iff the mean is > 5 or the fraction is > 0.08, else the Low tier.
C8_ComplexityTiers ==
    pc = "_assess_complexity" =>
        LET words == split(text)
        IN  result = (IF words = <<>> THEN "Unknown" ELSE ClaimedTier(words))

\* a text is Medium only because one word in twelve is long, its last word
\* being long by its trailing punctuation alone
C8_Witness ==
    /\ pc = "_assess_complexity"
    /\ result = "Medium (Professional)"
    /\ LET words == split(text)
       IN  /\ Len(words) = 12
           /\ StrippedLengthSum(words) <= 5 * Len(words)
           /\ LongWordCount(words) = 1
           /\ Len(strip_chars(words[Len(words)], WordPunctuation)) = 8

EveryWordAtMostThree(words) == \A k \in 1..Len(words) : Len(words[k]) <= 3
MeanIsNine(words) == words # <<>> /\ StrippedLengthSum(words) = 9 * Len(words)

\* C9 as stated: every non-empty text in which every word has at most 3
\* characters is Low, and every text whose mean word length is 9 is High.
C9_Original ==
    pc = "_assess_complexity" =>
        LET words == split(text)
        IN  /\ (text # "" /\ EveryWordAtMostThree(words))
                  => result = "Low (General Audience)"
            /\ MeanIsNine(words) => result = "High (Technical/Specialized)"

\* C9, amended: every text with at least one word in which every word has at
\* most 3 characters is Low, and every text whose mean (punctuation-stripped)
\* word length is 9 is High.
C9_ShortWordsLowLongWordsHigh ==
    pc = "_assess_complexity" =>
        LET words == split(text)
        IN  /\ (words # <<>> /\ EveryWordAtMostThree(words))
                  => result = "Low (General Audience)"
            /\ MeanIsNine(words) => result = "High (Technical/Specialized)"

\* a text mixing 7-letter and 11-letter words with mean length 9 has been classified
C9_Witness ==
    /\ pc = "_assess_complexity"
    /\ LET words == split(text)
       IN  /\ MeanIsNine(words)
           /\ \E k \in 1..Len(words) : Len(words[k]) = 7

(***************************************************************************)
(* SpecDocumentType: one call of _identify_document_type                   *)
(***************************************************************************)

\* the words the texts of SpecDocumentType are assembled from, each followed
\* by a space
DocumentTypeWords ==
    {"Research ", "STUDY ", "Evaluation ", "tutorials ", "planet ", "compliance ",
     "hello "}

\* how many words a text of SpecDocumentType is assembled from, at most
MaxDocumentTypeWords == 3

DocumentTypeTexts ==
    {Concat(p, Len(p)) : p \in SeqsUpTo(DocumentTypeWords, MaxDocumentTypeWords)}

InitDocumentType ==
    /\ text \in DocumentTypeTexts
    /\ sentences = <<>>
    /\ word_count = 0
    /\ result = <<>>
    /\ locals = <<>>
    /\ pc = "input"
    /\ GuiIdle

CallIdentifyDocumentType ==
    /\ pc = "input"
    /\ pc' = "_identify_document_type"
    /\ result' = _identify_document_type(text)
    /\ locals' = <<>>
    /\ UNCHANGED <<text, sentences, word_count>>
    /\ UNCHANGED guiVars

NextDocumentType == CallIdentifyDocumentType

SpecDocumentType == InitDocumentType /\ [][NextDocumentType]_vars

(***************************************************************************)
(* C10                                                                     *)
(***************************************************************************)

\* the categories, by their place in the order Research Paper, Report/Analysis,
\* Manual/Guide, Proposal/Plan, Policy/Procedure, of which a keyword occurs in
\* the lowercased text
MatchingCategories(t) ==
    LET text_lower == lower(t)
    IN  {c \in 1..5 : \E n \in 1..4 : Contains(text_lower, DocumentTypeKeywords[c][n])}

\* C10: _identify_document_type returns the label of the first category, in
\* the order Research Paper, Report/Analysis, Manual/Guide, Proposal/Plan,
\* Policy/Procedure, of which a keyword occurs as a substring of the
\* lowercased text, and "General Document" exactly when no keyword of any
\* category occurs.
C10_FirstMatchingCategoryWins ==
    pc = "_identify_document_type" =>
        LET matching == MatchingCategories(text)
        IN  /\ \A c \in 1..5 :
                  result = <<"Research Paper/Study", "Report/Analysis", "Manual/Guide",
                             "Proposal/Plan", "Policy/Procedure">>[c]
                      <=> (c \in matching /\ \A b \in 1..(c - 1) : b \notin matching)
            /\ result = "General Document" <=> matching = {}

\* a text with keywords of the Report/Analysis, Manual/Guide and
\* Proposal/Plan categories, the last inside a longer word, has been classified
C10_Witness ==
    /\ pc = "_identify_document_type"
    /\ MatchingCategories(text) = {2, 3, 4}
    /\ result = "Report/Analysis"

(***************************************************************************)
(* Lexical Analyzer                                                        *)
(***************************************************************************)

\* the characters the regex class \w matches, among the characters of the model's texts
WordChars ==
    {UpperCase[k] : k \in 1..Len(UpperCase)} \cup {LowerCase[k] : k \in 1..Len(LowerCase)}
        \cup Digits \cup {"_"}

\* re.sub(r'[^\w\s]', ' ', s)
ReplaceNonWord(s) ==
    Join([k \in 1..Len(s) |->
            IF Char(s, k) \in WordChars \cup Whitespace THEN Char(s, k) ELSE " "])

\* stop_words of _extract_key_phrases
stop_words ==
    {"the", "a", "an", "and", "or", "but", "in", "on", "at", "to", "for", "of", "with",
     "by", "from", "up", "about", "into", "through", "during", "before", "after",
     "above", "below", "between", "among", "this", "that", "these", "those", "i", "me",
     "my", "myself", "we", "our", "ours", "ourselves", "you", "your", "yours", "yourself",
     "he", "him", "his", "himself", "she", "her", "hers", "herself", "it", "its", "itself",
     "they", "them", "their", "theirs", "themselves", "what", "which", "who", "whom",
     "whose", "am", "is", "are", "was", "were", "be",
     "been", "being", "have", "has", "had", "having", "do", "does", "did", "doing",
     "will", "would", "could", "should", "may", "might", "must", "can", "shall"}

\* a key phrase is longer than this many characters
MinKeyPhraseLen == 3

\* how many entries most_common is asked for
MaxKeyPhrases == 10

\* a sort by key descending that is not stable: items of equal key come out
\* in the reverse of their original order
SortDescendingTiesReversed(items, keys) ==
    LET n == Len(items)
        rank == [k \in 1..n |->
                    1 + Cardinality({j \in 1..n : keys[j] > keys[k]
                                                     \/ (keys[j] = keys[k] /\ j > k)})]
    IN  [r \in 1..n |-> items[CHOOSE k \in 1..n : rank[k] = r]]

\* list.sort(key=..., reverse=True) and sorted(..., reverse=True): the items by
\* key descending, items of equal key in their original order (the sort is stable)
SortDescending(items, keys) ==
    LET n == Len(items)
        rank == [k \in 1..n |->
                    1 + Cardinality({j \in 1..n : keys[j] > keys[k]
                                                     \/ (keys[j] = keys[k] /\ j < k)})]
    IN  [r \in 1..n |-> items[CHOOSE k \in 1..n : rank[k] = r]]

\* seq[:n]
Take(seq, n) == SubSeq(seq, 1, IF Len(seq) < n THEN Len(seq) ELSE n)

\* the distinct words in the order of their last occurrence
CounterKeysLastSeen(words) ==
    LET lasts == SelectSeq([k \in 1..Len(words) |-> k],
                           LAMBDA k : \A j \in (k + 1)..Len(words) : words[j] # words[k])
    IN  [r \in 1..Len(lasts) |-> words[lasts[r]]]

\* the keys of Counter(words), in insertion (first-seen) order
CounterKeys(words) ==
    LET firsts == SelectSeq([k \in 1..Len(words) |-> k],
                            LAMBDA k : \A j \in 1..(k - 1) : words[j] # words[k])
    IN  [r \in 1..Len(firsts) |-> words[firsts[r]]]

\* Counter(words)[w]
CounterCount(words, w) == Cardinality({k \in 1..Len(words) : words[k] = w})

\* Counter(words).most_common(n): the (word, count) pairs by count descending,
\* equal counts in first-seen order, cut to n
most_common(words, n) ==
    LET keys == CounterKeys(words)
        counts == [k \in 1..Len(keys) |-> CounterCount(words, keys[k])]
        pairs == [k \in 1..Len(keys) |-> <<keys[k], counts[k]>>]
    IN  Take(SortDescending(pairs, counts), n)

\* the lowercased, punctuation-cleaned token stream of a text
CleanTokens(t) == split(ReplaceNonWord(lower(t)))

\* _extract_key_phrases without the `count > 1` test
ExtractKeyPhrasesKeepSingletons(t) ==
    LET words == CleanTokens(t)
        filtered_words ==
            SelectSeq(words, LAMBDA w : w \notin stop_words /\ Len(w) > MinKeyPhraseLen)
        top == most_common(filtered_words, MaxKeyPhrases)
    IN  [k \in 1..Len(top) |-> top[k][1]]

\* PDFProcessor._extract_key_phrases
_extract_key_phrases(t) ==
    LET words == CleanTokens(t)
        filtered_words ==
            SelectSeq(words, LAMBDA w : w \notin stop_words /\ Len(w) > MinKeyPhraseLen)
        top == SelectSeq(most_common(filtered_words, MaxKeyPhrases), LAMBDA p : p[2] > 1)
    IN  [k \in 1..Len(top) |-> top[k][1]]

(***************************************************************************)
(* SpecKeyPhrases: one call of _extract_key_phrases                        *)
(***************************************************************************)

\* the blocks the texts of SpecKeyPhrases are assembled from
KeyPhraseBlocks ==
    {"The alpha Bravo, charlie delta echo foxtrot cat with. ",
     "golf hotel india juliet kilo lima should's ",
     "mike mike alpha-bravo zulu_9 ",
     "November "}

\* how many blocks a text of SpecKeyPhrases is assembled from, at most
MaxKeyPhraseBlocks == 4

KeyPhraseTexts ==
    {Concat(p, Len(p)) : p \in SeqsUpTo(KeyPhraseBlocks, MaxKeyPhraseBlocks)}

InitKeyPhrases ==
    /\ text \in KeyPhraseTexts
    /\ sentences = <<>>
    /\ word_count = 0
    /\ result = <<>>
    /\ locals = <<>>
    /\ pc = "input"
    /\ GuiIdle

CallExtractKeyPhrases ==
    /\ pc = "input"
    /\ pc' = "_extract_key_phrases"
    /\ result' = _extract_key_phrases(text)
    /\ locals' = <<>>
    /\ UNCHANGED <<text, sentences, word_count>>
    /\ UNCHANGED guiVars

NextKeyPhrases == CallExtractKeyPhrases

SpecKeyPhrases == InitKeyPhrases /\ [][NextKeyPhrases]_vars

(***************************************************************************)
(* C4                                                                      *)
(***************************************************************************)

\* how often a token occurs in a token stream
Occurrences(tokens, w) == Cardinality({j \in 1..Len(tokens) : tokens[j] = w})

\* C4: the list returned by _extract_key_phrases has at most 10 entries,
\* contains no stop-word, contains no token of length 3 or less, and every
\* entry occurs at least twice in the lowercased, punctuation-cleaned token
\* stream of the text.
C4_KeyPhrasesBoundedAndQualified ==
    pc = "_extract_key_phrases" =>
        LET tokens == CleanTokens(text)
        IN  /\ Len(result) <= 10
            /\ \A k \in 1..Len(result) :
                  /\ result[k] \notin stop_words
                  /\ Len(result[k]) > 3
                  /\ Occurrences(tokens, result[k]) >= 2

\* the cap was binding: ten key phrases were returned for a text in which more
\* than ten qualifying tokens, a stop-word and a short token all occur twice
C4_Witness ==
    /\ pc = "_extract_key_phrases"
    /\ Len(result) = 10
    /\ LET tokens == CleanTokens(text)
       IN  /\ Occurrences(tokens, "lima") = 2
           /\ \A k \in 1..10 : result[k] # "lima"
           /\ Occurrences(tokens, "with") = 2
           /\ Occurrences(tokens, "cat") = 2

(***************************************************************************)
(* Sentence Scorer                                                         *)
(***************************************************************************)

\* important_keywords of _extract_important_sentences
important_keywords ==
    <<"important", "significant", "key", "main", "primary", "essential", "critical",
      "conclusion", "result", "finding", "discovery", "breakthrough", "analysis",
      "summary", "overview", "objective", "goal", "purpose", "recommendation",
      "solution", "problem", "issue", "challenge", "opportunity", "benefit",
      "advantage", "strategy", "approach", "method", "technique", "process">>

\* the openers that earn 3 points, and the transition words that earn 2
StrongOpeners ==
    <<"The main", "The key", "The primary", "The most important", "In conclusion",
      "To summarize">>
TransitionOpeners ==
    <<"However", "Therefore", "Thus", "Furthermore", "Moreover", "Additionally">>

\* the number and data indicators
DataWords == <<"percent", "%", "data", "statistics", "study", "research">>

\* sentence.count(c) for a one-character string c
CountChar(s, c) == Cardinality({k \in 1..Len(s) : Char(s, k) = c})

\* the point a sentence earns for holding a question mark
QuestionBonus(sentence) == IF Contains(sentence, "?") THEN 1 ELSE 0

\* a count that adds one for every place where a keyword starts in the sentence
KeywordCountEveryOccurrence(sentence_lower) ==
    SumOver([k \in 1..Len(important_keywords) |->
                Cardinality({i \in 1..(Len(sentence_lower) - Len(important_keywords[k]) + 1) :
                    SubSeq(sentence_lower, i, i + Len(important_keywords[k]) - 1)
                        = important_keywords[k]})],
            Len(important_keywords))

\* keyword_count: sum(1 for keyword in important_keywords if keyword in sentence_lower)
KeywordCount(sentence_lower) ==
    SumOver([k \in 1..Len(important_keywords) |->
                IF Contains(sentence_lower, important_keywords[k]) THEN 1 ELSE 0],
            Len(important_keywords))

\* the part of a sentence's score that depends on the sentence alone: the
\* length band, the keywords, the openers, '?', commas, digits and data words
ContentScore(sentence) ==
    LET sentence_lower == lower(sentence)
        n == Len(sentence)
        keyword_count == KeywordCount(sentence_lower)
    IN  (IF 40 <= n /\ n <= 250 THEN 3
         ELSE IF 20 <= n /\ n <= 400 THEN 2
         ELSE IF n > 10 THEN 1 ELSE 0)
        + keyword_count * 2
        + (IF \E k \in 1..Len(StrongOpeners) : startswith(sentence, StrongOpeners[k])
           THEN 3 ELSE 0)
        + (IF \E k \in 1..Len(TransitionOpeners) : startswith(sentence, TransitionOpeners[k])
           THEN 2 ELSE 0)
        + QuestionBonus(sentence)
        + (IF CountChar(sentence, ",") > 2 THEN 1 ELSE 0)
        + (IF \E k \in 1..n : Char(sentence, k) \in Digits THEN 1 ELSE 0)
        + (IF ContainsAny(sentence_lower, DataWords) THEN 2 ELSE 0)

\* a position score whose opening band reaches to the middle of the list
PositionScoreWideOpening(i, total) ==
    IF 2 * i < total THEN 2
    ELSE IF 100 * i > 85 * total THEN 2
    ELSE IF 4 * total <= 10 * i /\ 10 * i <= 6 * total THEN 1
    ELSE 0

\* the part of the score that depends on the position i (from 0) among total
\* sentences.  The code compares i with the doubles total * 0.15, total * 0.85,
\* total * 0.4 and total * 0.6; for every total below 2000 these comparisons
\* agree with the integer comparisons here.
PositionScore(i, total) ==
    IF 100 * i < 15 * total THEN 2
    ELSE IF 100 * i > 85 * total THEN 2
    ELSE IF 4 * total <= 10 * i /\ 10 * i <= 6 * total THEN 1
    ELSE 0

\* the sentences the model's sentence lists are made of
ImportantPalette ==
    {"plain words here",
     "The main result is significant, by 5 percent, in data, we found"}

\* ContentScore of the sentences above, evaluated once
ContentScoreOfPalette == [s \in ImportantPalette |-> ContentScore(s)]

\* ContentScore(sentence), looked up when the sentence is one of the palette
SentenceContentScore(sentence) ==
    IF sentence \in DOMAIN ContentScoreOfPalette
    THEN ContentScoreOfPalette[sentence]
    ELSE ContentScore(sentence)

\* scored_sentences before the sort: (score, sentence, i) for i = 0 .. len - 1
ScoredSentences(sents) ==
    [k \in 1..Len(sents) |->
        <<SentenceContentScore(sents[k]) + PositionScore(k - 1, Len(sents)),
          sents[k], k - 1>>]

\* a candidate is skipped when a selected index is closer than this
DiversityGap == 3

\* the number of important sentences selected, at most
MaxImportant == 5

Abs(x) == IF x < 0 THEN -x ELSE x

RECURSIVE SelectIndices(_, _, _, _)
\* the loop over the sorted tuples from the k-th on: selected_indices at its end
SelectIndices(sorted, k, selected_indices, gap) ==
    IF k > Len(sorted) \/ Len(selected_indices) >= MaxImportant THEN selected_indices
    ELSE LET index == sorted[k][3]
         IN  IF ~\E r \in 1..Len(selected_indices) : Abs(index - selected_indices[r]) < gap
             THEN SelectIndices(sorted, k + 1, Append(selected_indices, index), gap)
             ELSE SelectIndices(sorted, k + 1, selected_indices, gap)

\* the locals of _extract_important_sentences at its return; `sentences` is
\* the argument list, which the caller shares: the sort at line 305 is on
\* scored_sentences, a list of its own, and nothing assigns to the argument
ImportantLocals(sents, gap) ==
    LET scored == ScoredSentences(sents)
        sorted == SortDescending(scored, [k \in 1..Len(scored) |-> scored[k][1]])
        selected_indices == SelectIndices(sorted, 1, <<>>, gap)
    IN  [sentences |-> sents,
         scored_sentences |-> sorted,
         selected_indices |-> selected_indices,
         selected_sentences |->
             [r \in 1..Len(selected_indices) |-> sents[selected_indices[r] + 1]]]

\* _extract_important_sentences skipping only candidates closer than 2 to a selected one
ImportantLocalsGapTwo(sents) ==
    IF sents = <<>>
    THEN [sentences |-> sents, scored_sentences |-> <<>>, selected_indices |-> <<>>,
          selected_sentences |-> <<>>]
    ELSE ImportantLocals(sents, DiversityGap - 1)

\* _extract_important_sentences sorting its argument list in place, by score
ImportantLocalsSortInPlace(sents) ==
    IF sents = <<>>
    THEN [sentences |-> sents, scored_sentences |-> <<>>, selected_indices |-> <<>>,
          selected_sentences |-> <<>>]
    ELSE LET at_return == ImportantLocals(sents, DiversityGap)
         IN  [at_return EXCEPT !.sentences =
                 [k \in 1..Len(sents) |-> at_return.scored_sentences[k][2]]]

\* the locals of PDFProcessor._extract_important_sentences at its return
_extract_important_sentences_locals(sents) ==
    IF sents = <<>>
    THEN [sentences |-> sents, scored_sentences |-> <<>>, selected_indices |-> <<>>,
          selected_sentences |-> <<>>]
    ELSE ImportantLocals(sents, DiversityGap)

\* PDFProcessor._extract_important_sentences
_extract_important_sentences(sents) ==
    _extract_important_sentences_locals(sents).selected_sentences

(***************************************************************************)
(* SpecImportant: one call of _extract_important_sentences                 *)
(***************************************************************************)

\* how many sentences a list of SpecImportant holds, at most
MaxSentences == 13

\* how many sentences a long list of SpecImportant holds, at most
MaxLongSentences == 16

\* long lists: a sentence rich in keywords at every third place, plain ones between
LongSentenceLists ==
    {[k \in 1..n |->
         IF (k - 1) % 3 = 0
         THEN "The main result is significant, by 5 percent, in data, we found"
         ELSE "plain words here"] : n \in (MaxSentences + 1)..MaxLongSentences}

InitImportant ==
    /\ text = ""
    /\ sentences \in SeqsUpTo(ImportantPalette, MaxSentences) \cup LongSentenceLists
    /\ word_count = 0
    /\ result = <<>>
    /\ locals = <<>>
    /\ pc = "input"
    /\ GuiIdle

CallExtractImportantSentences ==
    /\ pc = "input"
    /\ pc' = "_extract_important_sentences"
    /\ locals' = _extract_important_sentences_locals(sentences)
    /\ result' = locals'.selected_sentences
    /\ UNCHANGED <<text, sentences, word_count>>
    /\ UNCHANGED guiVars

NextImportant == CallExtractImportantSentences

SpecImportant == InitImportant /\ [][NextImportant]_vars

(***************************************************************************)
(* C1                                                                      *)
(***************************************************************************)

\* C1 as stated: _extract_important_sentences never returns two sentences
\* whose original indices differ by less than 4.
C1_Original ==
    pc = "_extract_important_sentences" =>
        \A a, b \in 1..Len(locals.selected_indices) :
            a # b => Abs(locals.selected_indices[a] - locals.selected_indices[b]) >= 4

\* C1, amended: _extract_important_sentences never returns two sentences
\* whose original indices differ by less than 3; the value returned is the
\* sentences at the selected indices.
C1_SelectedIndicesThreeApart ==
    pc = "_extract_important_sentences" =>
        /\ \A a, b \in 1..Len(locals.selected_indices) :
              a # b => Abs(locals.selected_indices[a] - locals.selected_indices[b]) >= 3
        /\ Len(result) = Len(locals.selected_indices)
        /\ \A r \in 1..Len(result) : result[r] = sentences[locals.selected_indices[r] + 1]

\* five sentences were selected, two of them exactly 3 positions apart
C1_Witness ==
    /\ pc = "_extract_important_sentences"
    /\ Len(result) = 5
    /\ \E a, b \in 1..5 : locals.selected_indices[a] - locals.selected_indices[b] = 3

(***************************************************************************)
(* Main Points extractor                                                   *)
(***************************************************************************)

\* point_indicators of _extract_main_points
point_indicators ==
    <<"the main", "the key", "the primary", "the most important", "the central",
      "in summary", "in conclusion", "to conclude", "overall", "the purpose",
      "the objective", "the goal", "the result", "the finding", "the outcome",
      "it is important", "it is essential", "it is critical", "it is necessary",
      "research shows", "studies indicate", "evidence suggests", "data reveals">>

\* the leading markers of numbered or bulleted points; the source's list also
\* holds the bullet character U+2022, which no text over the ASCII alphabet of
\* this model starts with
BulletMarkers == <<"1.", "2.", "3.", "-", "*">>

\* a main point has a trimmed length above this
MinMainPointLen == 15

\* the number of main points returned, at most
MaxMainPoints == 4

\* the number of important sentences the top-up takes, at most
TopUpCount == 5

\* the sentence, trimmed, starts with the k-th marker
StartsWithMarker(sentence, k) == startswith(strip(sentence), BulletMarkers[k])

\* the entries the scan appends for one sentence: the sentence if it holds an
\* indicator and has 30..300 characters, and the sentence (again) if it starts
\* with a marker and has 20..250 characters
DirectMatches(sentence) ==
    LET sentence_lower == lower(sentence)
        n == Len(sentence)
    IN  (IF ContainsAny(sentence_lower, point_indicators) /\ 30 <= n /\ n <= 300
         THEN <<strip(sentence)>> ELSE <<>>)
        \o (IF (\E k \in 1..Len(BulletMarkers) : StartsWithMarker(sentence, k))
                /\ 20 <= n /\ n <= 250
            THEN <<strip(sentence)>> ELSE <<>>)

RECURSIVE ScanMainPoints(_, _)
\* main_points after the scan of the first k sentences
ScanMainPoints(sents, k) ==
    IF k = 0 THEN <<>> ELSE ScanMainPoints(sents, k - 1) \o DirectMatches(sents[k])

RECURSIVE UniquePoints(_, _, _, _)
\* the de-duplication loop from the k-th point on: unique_points at its end
UniquePoints(points, k, seen, unique_points) ==
    IF k > Len(points) THEN unique_points
    ELSE IF points[k] \notin seen /\ Len(strip(points[k])) > MinMainPointLen
    THEN UniquePoints(points, k + 1, seen \cup {points[k]}, Append(unique_points, points[k]))
    ELSE UniquePoints(points, k + 1, seen, unique_points)

\* the locals of _extract_main_points before its return statement, the slice
\* of unique_points being cut to `cap` entries
MainPointsLocals(t, cap) ==
    LET sents == _split_into_sentences(t)
        scanned == ScanMainPoints(sents, Len(sents))
        topped_up == Len(scanned) < 3
        main_points ==
            IF topped_up
            THEN scanned \o Take(_extract_important_sentences(sents), TopUpCount)
            ELSE scanned
    IN  [sentences |-> sents,
         scanned |-> scanned,
         topped_up |-> topped_up,
         main_points |-> main_points,
         returned |-> Take(UniquePoints(main_points, 1, {}, <<>>), cap)]

\* _extract_main_points putting the important sentences before the scanned
\* ones, whenever fewer than 4 were scanned
MainPointsLocalsTopUpFirst(t) ==
    LET sents == _split_into_sentences(t)
        scanned == ScanMainPoints(sents, Len(sents))
        topped_up == Len(scanned) < 4
        main_points ==
            IF topped_up
            THEN Take(_extract_important_sentences(sents), TopUpCount) \o scanned
            ELSE scanned
    IN  [sentences |-> sents,
         scanned |-> scanned,
         topped_up |-> topped_up,
         main_points |-> main_points,
         returned |-> Take(UniquePoints(main_points, 1, {}, <<>>), MaxMainPoints)]

\* _extract_main_points returning one point more
MainPointsLocalsCapFive(t) == MainPointsLocals(t, MaxMainPoints + 1)

\* the locals of PDFProcessor._extract_main_points at its return
_extract_main_points_locals(t) == MainPointsLocals(t, MaxMainPoints)

\* PDFProcessor._extract_main_points
_extract_main_points(t) == _extract_main_points_locals(t).returned

(***************************************************************************)
(* SpecMainPoints: one call of _extract_main_points                        *)
(***************************************************************************)

\* the blocks the texts of SpecMainPoints are assembled from
MainPointBlocks ==
    {"The main goal of the project is clear. In conclusion we recommend further research now. ",
     "- second bullet item here. - the key bullet point is listed right here! ",
     "key main goal. Overall the results improved? ",
     "It is important that the data reveals five new findings. ",
     "Plain filler sentence number one. "}

\* how many blocks a text of SpecMainPoints is assembled from, at most
MaxMainPointBlocks == 3

MainPointTexts ==
    {Concat(p, Len(p)) : p \in SeqsUpTo(MainPointBlocks, MaxMainPointBlocks)}

InitMainPoints ==
    /\ text \in MainPointTexts
    /\ sentences = <<>>
    /\ word_count = 0
    /\ result = <<>>
    /\ locals = <<>>
    /\ pc = "input"
    /\ GuiIdle

CallExtractMainPoints ==
    /\ pc = "input"
    /\ pc' = "_extract_main_points"
    /\ locals' = _extract_main_points_locals(text)
    /\ result' = locals'.returned
    /\ UNCHANGED <<text, sentences, word_count>>
    /\ UNCHANGED guiVars

NextMainPoints == CallExtractMainPoints

SpecMainPoints == InitMainPoints /\ [][NextMainPoints]_vars

(***************************************************************************)
(* C3                                                                      *)
(***************************************************************************)

\* C3: the list returned by _extract_main_points has at most 4 entries,
\* contains no two equal strings, and every entry has trimmed length greater
\* than 15.
C3_MainPointsCappedDistinctLong ==
    pc = "_extract_main_points" =>
        /\ Len(result) <= 4
        /\ \A a, b \in 1..Len(result) : a # b => result[a] # result[b]
        /\ \A a \in 1..Len(result) : Len(strip(result[a])) > 15

\* four points were returned from a scan that found five different points,
\* one of them twice
C3_Witness ==
    /\ pc = "_extract_main_points"
    /\ Len(result) = 4
    /\ Cardinality({locals.main_points[k] : k \in 1..Len(locals.main_points)}) = 5
    /\ Len(locals.main_points) = 6

\* the top-up ran and a sentence of 15 characters or less that it offered was dropped
C3_WitnessShortDropped ==
    /\ pc = "_extract_main_points"
    /\ Len(locals.scanned) < 3
    /\ \E k \in 1..Len(locals.main_points) :
          /\ Len(locals.main_points[k]) <= 15
          /\ \A a \in 1..Len(result) : result[a] # locals.main_points[k]

(***************************************************************************)
(* The main window and its worker threads                                  *)
(***************************************************************************)

\* DualMindMainWindow.is_valid_youtube_url
is_valid_youtube_url(url) ==
    ContainsAny(lower(url),
                <<"youtube.com/watch", "youtu.be/", "youtube.com/embed/", "youtube.com/v/">>)

\* YouTubeProcessor._is_valid_youtube_url
_is_valid_youtube_url(url) ==
    ContainsAny(lower(url), <<"youtube.com/watch", "youtu.be/">>)

\* the statements of ProcessingThread._process_youtube inside its try block
ProcessYoutubeSteps ==
    <<[op |-> "progress_updated", value |-> 10],
      [op |-> "progress_updated", value |-> 20],
      [op |-> "get_video_info", value |-> 0],
      [op |-> "progress_updated", value |-> 40],
      [op |-> "transcribe_video", value |-> 0],
      [op |-> "progress_updated", value |-> 100],
      [op |-> "processing_completed", value |-> 0],
      [op |-> "cleanup", value |-> 0]>>

\* the statements of ProcessingThread._process_pdf inside its try block
ProcessPdfSteps ==
    <<[op |-> "progress_updated", value |-> 10],
      [op |-> "progress_updated", value |-> 30],
      [op |-> "progress_updated", value |-> 60],
      [op |-> "summarize_pdf", value |-> 0],
      [op |-> "progress_updated", value |-> 100],
      [op |-> "get_pdf_info", value |-> 0],
      [op |-> "processing_completed", value |-> 0],
      [op |-> "cleanup", value |-> 0]>>

\* the statements of the except blocks of _process_youtube and _process_pdf
ExceptSteps ==
    <<[op |-> "cleanup", value |-> 0],
      [op |-> "processing_failed", value |-> 0]>>

\* the statement thread t executes next
CurrentStep(t) ==
    IF t.phase = "except" THEN ExceptSteps[t.step]
    ELSE IF t.task_type = "youtube" THEN ProcessYoutubeSteps[t.step]
    ELSE ProcessPdfSteps[t.step]

\* QThread.isRunning(): run() has been entered and has not returned
isRunning(t) == t.phase # "finished"

\* thread t after the statement it was executing has returned
Advance(t) ==
    LET n == IF t.phase = "except" THEN Len(ExceptSteps)
             ELSE IF t.task_type = "youtube" THEN Len(ProcessYoutubeSteps)
             ELSE Len(ProcessPdfSteps)
    IN  IF t.step = n THEN [t EXCEPT !.phase = "finished", !.step = 1]
        ELSE [t EXCEPT !.step = t.step + 1]

\* ProcessingThread(task_type, data) at its start()
ProcessingThread(task_type, data) ==
    [task_type |-> task_type, data |-> data, phase |-> "try", step |-> 1]

\* the calls of the worker that may raise: the processors' methods that
\* download, transcribe or read a file (get_pdf_info calls os.stat)
MayRaise == {"get_video_info", "transcribe_video", "summarize_pdf", "get_pdf_info"}

\* the calls of the worker that return a value
ServiceCalls == MayRaise \cup {"get_pdf_info"}

\* the worker emits progress_updated(value, message); the signal is queued
\* to the thread of the main window
EmitProgressUpdated(i) ==
    /\ app = "running"
    /\ threads[i].phase = "try"
    /\ CurrentStep(threads[i]).op = "progress_updated"
    /\ signals' = Append(signals, [thread |-> i, signal |-> "progress_updated",
                                   value |-> CurrentStep(threads[i]).value])
    /\ threads' = [threads EXCEPT ![i] = Advance(threads[i])]
    /\ UNCHANGED <<youtube_process_btn, pdf_process_btn, selected_pdf_path, progress_bar, app>>
    /\ UNCHANGED coreVars

\* a processor method called by the worker returns; transcribe_video returns
\* only for a URL that YouTubeProcessor takes as valid
ServiceCallReturns(i) ==
    /\ app = "running"
    /\ threads[i].phase = "try"
    /\ CurrentStep(threads[i]).op \in ServiceCalls
    /\ CurrentStep(threads[i]).op = "transcribe_video" => _is_valid_youtube_url(threads[i].data)
    /\ threads' = [threads EXCEPT ![i] = Advance(threads[i])]
    /\ UNCHANGED <<youtube_process_btn, pdf_process_btn, selected_pdf_path, progress_bar,
                   signals, app>>
    /\ UNCHANGED coreVars

\* a processor method called by the worker raises: control passes to the
\* except block
ServiceCallRaises(i) ==
    /\ app = "running"
    /\ threads[i].phase = "try"
    /\ CurrentStep(threads[i]).op \in MayRaise
    /\ threads' = [threads EXCEPT ![i] = [@ EXCEPT !.phase = "except", !.step = 1]]
    /\ UNCHANGED <<youtube_process_btn, pdf_process_btn, selected_pdf_path, progress_bar,
                   signals, app>>
    /\ UNCHANGED coreVars

\* the worker emits processing_completed(result, metadata)
EmitProcessingCompleted(i) ==
    /\ app = "running"
    /\ threads[i].phase = "try"
    /\ CurrentStep(threads[i]).op = "processing_completed"
    /\ signals' = Append(signals, [thread |-> i, signal |-> "processing_completed", value |-> 0])
    /\ threads' = [threads EXCEPT ![i] = Advance(threads[i])]
    /\ UNCHANGED <<youtube_process_btn, pdf_process_btn, selected_pdf_path, progress_bar, app>>
    /\ UNCHANGED coreVars

\* the worker emits processing_failed(message) at the end of the except block
EmitProcessingFailed(i) ==
    /\ app = "running"
    /\ threads[i].phase = "except"
    /\ CurrentStep(threads[i]).op = "processing_failed"
    /\ signals' = Append(signals, [thread |-> i, signal |-> "processing_failed", value |-> 0])
    /\ threads' = [threads EXCEPT ![i] = Advance(threads[i])]
    /\ UNCHANGED <<youtube_process_btn, pdf_process_btn, selected_pdf_path, progress_bar, app>>
    /\ UNCHANGED coreVars

\* a cleanup of the worker that raises inside the try block
WorkerCleanupRaises(i) ==
    /\ app = "running"
    /\ threads[i].phase \in {"try", "except"}
    /\ CurrentStep(threads[i]).op = "cleanup"
    /\ threads' = [threads EXCEPT ![i] =
          IF @.phase = "try" THEN [@ EXCEPT !.phase = "except", !.step = 1] ELSE Advance(@)]
    /\ UNCHANGED <<youtube_process_btn, pdf_process_btn, selected_pdf_path, progress_bar,
                   signals, app>>
    /\ UNCHANGED coreVars

\* force_cleanup(); cleanup_all_temp_files() in the worker: both swallow
\* their exceptions
WorkerCleanup(i) ==
    /\ app = "running"
    /\ threads[i].phase \in {"try", "except"}
    /\ CurrentStep(threads[i]).op = "cleanup"
    /\ threads' = [threads EXCEPT ![i] = Advance(threads[i])]
    /\ UNCHANGED <<youtube_process_btn, pdf_process_btn, selected_pdf_path, progress_bar,
                   signals, app>>
    /\ UNCHANGED coreVars
\* what the text field holds when "Start Transcription" is clicked
UrlInputs == {"", "  ", "https://example.com/watch", " https://YouTu.be/x ", "youtube.com/embed/x"}

\* what the file dialog returns: "" when it is cancelled
FileDialogResults == {"", "a.pdf"}

\* how many threads the window starts, at most
MaxThreads == 2

\* self.processing_thread = ProcessingThread(...) drops the window's only
\* reference to the previous thread object. If that thread is still running,
\* either its wrapper survives while its run() executes and the program goes
\* on, or the QThread is destroyed while running and Qt aborts the process.
AfterRebinding ==
    IF threads # <<>> /\ isRunning(threads[Len(threads)])
    THEN {"running", "aborted"}
    ELSE {"running"}

\* DualMindMainWindow.select_pdf_file; the "Select PDF File" button is
\* enabled at all times
select_pdf_file(file_path) ==
    /\ app = "running"
    /\ IF file_path # ""
       THEN /\ selected_pdf_path' = file_path
            /\ pdf_process_btn' = TRUE
       ELSE UNCHANGED <<selected_pdf_path, pdf_process_btn>>
    /\ UNCHANGED <<youtube_process_btn, progress_bar, threads, signals, app>>
    /\ UNCHANGED coreVars

\* DualMindMainWindow.process_youtube, the slot of the clicked signal of the
\* "Start Transcription" button: a disabled button emits no clicked signal
process_youtube(url_text) ==
    /\ app = "running"
    /\ youtube_process_btn
    /\ Len(threads) < MaxThreads
    /\ LET url == strip(url_text)
       IN  IF url = "" \/ ~is_valid_youtube_url(url)
           THEN UNCHANGED guiVars
           ELSE /\ youtube_process_btn' = FALSE
                /\ pdf_process_btn' = FALSE
                /\ progress_bar' = 0
                /\ app' \in AfterRebinding
                /\ threads' = IF app' = "running"
                              THEN Append(threads, ProcessingThread("youtube", url))
                              ELSE threads
                /\ UNCHANGED <<selected_pdf_path, signals>>
    /\ UNCHANGED coreVars

\* DualMindMainWindow.process_pdf, the slot of the clicked signal of the
\* "Analyze PDF" button
process_pdf ==
    /\ app = "running"
    /\ pdf_process_btn
    /\ Len(threads) < MaxThreads
    /\ IF selected_pdf_path = ""
       THEN UNCHANGED guiVars
       ELSE /\ youtube_process_btn' = FALSE
            /\ pdf_process_btn' = FALSE
            /\ progress_bar' = 0
            /\ app' \in AfterRebinding
            /\ threads' = IF app' = "running"
                          THEN Append(threads, ProcessingThread("pdf", selected_pdf_path))
                          ELSE threads
            /\ UNCHANGED <<selected_pdf_path, signals>>
    /\ UNCHANGED coreVars

\* DualMindMainWindow.update_progress, run by the event loop of the main
\* window for the oldest queued signal
update_progress ==
    /\ app = "running"
    /\ signals # <<>>
    /\ Head(signals).signal = "progress_updated"
    /\ progress_bar' = Head(signals).value
    /\ signals' = Tail(signals)
    /\ UNCHANGED <<youtube_process_btn, pdf_process_btn, selected_pdf_path, threads, app>>
    /\ UNCHANGED coreVars

\* DualMindMainWindow.processing_completed
processing_completed ==
    /\ app = "running"
    /\ signals # <<>>
    /\ Head(signals).signal = "processing_completed"
    /\ progress_bar' = 100
    /\ youtube_process_btn' = TRUE
    /\ pdf_process_btn' = TRUE
    /\ signals' = Tail(signals)
    /\ UNCHANGED <<selected_pdf_path, threads, app>>
    /\ UNCHANGED coreVars

\* DualMindMainWindow.processing_failed
processing_failed ==
    /\ app = "running"
    /\ signals # <<>>
    /\ Head(signals).signal = "processing_failed"
    /\ progress_bar' = 0
    /\ youtube_process_btn' = TRUE
    /\ pdf_process_btn' = IF selected_pdf_path # "" THEN TRUE ELSE pdf_process_btn
    /\ signals' = Tail(signals)
    /\ UNCHANGED <<selected_pdf_path, threads, app>>
    /\ UNCHANGED coreVars

(***************************************************************************)
(* SpecGui: the main window, its user and its worker threads               *)
(***************************************************************************)

InitGui ==
    /\ CoreIdle
    /\ GuiIdle

NextGui ==
    \/ \E file_path \in FileDialogResults : select_pdf_file(file_path)
    \/ \E url_text \in UrlInputs : process_youtube(url_text)
    \/ process_pdf
    \/ update_progress
    \/ processing_completed
    \/ processing_failed
    \/ \E i \in 1..Len(threads) : EmitProgressUpdated(i)
    \/ \E i \in 1..Len(threads) : ServiceCallReturns(i)
    \/ \E i \in 1..Len(threads) : ServiceCallRaises(i)
    \/ \E i \in 1..Len(threads) : EmitProcessingCompleted(i)
    \/ \E i \in 1..Len(threads) : EmitProcessingFailed(i)
    \/ \E i \in 1..Len(threads) : WorkerCleanup(i)

SpecGui == InitGui /\ [][NextGui]_vars

(***************************************************************************)
(* C2                                                                      *)
(***************************************************************************)

\* thread i has emitted processing_completed or processing_failed
TerminalEmitted(i) ==
    \/ threads[i].phase = "finished"
    \/ threads[i].phase = "try" /\ CurrentStep(threads[i]).op = "cleanup"

\* thread i is in flight: it was started and the main window has not yet
\* handled its processing_completed or processing_failed
InFlight(i) ==
    \/ ~TerminalEmitted(i)
    \/ \E k \in 1..Len(signals) :
          /\ signals[k].thread = i
          /\ signals[k].signal \in {"processing_completed", "processing_failed"}

\* C2: at most one ProcessingThread is in flight at any time: while a task is
\* running, no sequence of select_pdf_file, process_pdf, process_youtube
\* starts a second one before processing_completed or processing_failed has
\* been handled.
C2_AtMostOneThreadInFlight ==
    Cardinality({i \in 1..Len(threads) : InFlight(i)}) <= 1

(***************************************************************************)
(* Key Insights and Action Items extractors                                *)
(***************************************************************************)

\* insight_indicators of _extract_key_insights
insight_indicators ==
    <<"this suggests", "this indicates", "this shows", "this demonstrates",
      "therefore", "thus", "hence", "consequently", "as a result",
      "it appears", "it seems", "evidence shows", "analysis reveals",
      "findings suggest", "research indicates", "studies show",
      "implications", "significance", "importance", "impact">>

\* action_indicators of _extract_action_items
action_indicators ==
    <<"should", "must", "need to", "recommend", "suggest", "propose",
      "it is recommended", "it is suggested", "it is advisable",
      "next steps", "action items", "implementation", "follow up",
      "consider", "ensure", "implement", "establish", "develop",
      "future work", "further research", "next phase">>

\* the scan loop shared in shape by both extractors: the trimmed sentences, in
\* order, that hold one of the indicators and have min_len..max_len characters
IndicatorMatches(sents, indicators, min_len, max_len) ==
    LET accepted ==
            SelectSeq([k \in 1..Len(sents) |-> k],
                      LAMBDA k : /\ ContainsAny(lower(sents[k]), indicators)
                                 /\ min_len <= Len(sents[k])
                                 /\ Len(sents[k]) <= max_len)
    IN  [r \in 1..Len(accepted) |-> strip(sents[accepted[r]])]

\* the number of key insights returned, at most
MaxInsights == 3

\* the number of action items returned, at most
MaxActions == 3

\* _extract_key_insights with the length test on the trimmed-off upper end
\* moved by one
ExtractKeyInsightsUpTo281(t) ==
    Take(IndicatorMatches(_split_into_sentences(t), insight_indicators, 25, 281), MaxInsights)

\* PDFProcessor._extract_key_insights
_extract_key_insights(t) ==
    Take(IndicatorMatches(_split_into_sentences(t), insight_indicators, 25, 280), MaxInsights)

\* _extract_action_items accepting sentences of 45 to 250 characters only
ExtractActionItemsFrom45(t) ==
    Take(IndicatorMatches(_split_into_sentences(t), action_indicators, 45, 250), MaxActions)

\* PDFProcessor._extract_action_items
_extract_action_items(t) ==
    Take(IndicatorMatches(_split_into_sentences(t), action_indicators, 20, 250), MaxActions)

(***************************************************************************)
(* Report Renderer                                                         *)
(***************************************************************************)

\* A formatter returns its lines joined by "\n".  A line is written here as a
\* record of its marker and its body: the marker "bullet" stands for the
\* character U+2022 and a space, a marker "1.", "2.", ... for that numeral, a
\* dot and a space.
Line(marker, body) == [marker |-> marker, body |-> body]

\* the characters the formatters take off the end of an entry
TrailingPunctuation == {".", ",", "!", "?"}

\* clean[:limit - 3] + "..." when clean is longer than limit, else clean
Truncate(clean, limit) ==
    IF Len(clean) > limit THEN SubSeq(clean, 1, limit - 3) \o "..." ELSE clean

\* the length limits of the four list formatters
MainPointLimit == 200
InsightLimit == 180
ImportantLimit == 180
ActionLimit == 170

\* how many important sentences and key phrases are rendered, at most
MaxRenderedImportant == 3
MaxRenderedPhrases == 5

\* _format_main_points cutting a long entry at the limit itself
FormatMainPointsCutAtLimit(points) ==
    IF points = <<>>
    THEN <<Line("bullet", "No clear main points identified in the document")>>
    ELSE [k \in 1..Len(points) |->
            LET clean_point == rstrip_chars(strip(points[k]), TrailingPunctuation)
            IN  Line(ToString(k) \o ".",
                     IF Len(clean_point) > MainPointLimit
                     THEN SubSeq(clean_point, 1, MainPointLimit) \o "..."
                     ELSE clean_point)]

\* PDFProcessor._format_main_points
_format_main_points(points) ==
    IF points = <<>>
    THEN <<Line("bullet", "No clear main points identified in the document")>>
    ELSE [k \in 1..Len(points) |->
            Line(ToString(k) \o ".",
                 Truncate(rstrip_chars(strip(points[k]), TrailingPunctuation), MainPointLimit))]

\* PDFProcessor._format_key_insights
_format_key_insights(insights) ==
    IF insights = <<>>
    THEN <<Line("bullet", "Document analysis did not reveal clear insights")>>
    ELSE [k \in 1..Len(insights) |->
            Line("bullet",
                 Truncate(rstrip_chars(strip(insights[k]), TrailingPunctuation), InsightLimit))]

\* PDFProcessor._format_action_items
_format_action_items(actions) ==
    IF actions = <<>>
    THEN <<Line("bullet", "No specific action items or recommendations identified")>>
    ELSE [k \in 1..Len(actions) |->
            Line("bullet",
                 Truncate(rstrip_chars(strip(actions[k]), TrailingPunctuation), ActionLimit))]

\* PDFProcessor._format_important_sentences
_format_important_sentences(sents) ==
    IF sents = <<>>
    THEN <<Line("bullet", "No significant sentences identified")>>
    ELSE [k \in 1..Len(Take(sents, MaxRenderedImportant)) |->
            Line("bullet", Truncate(strip(sents[k]), ImportantLimit))]

\* the upper-case letter of a lower-case letter
UpperOf ==
    [c \in {LowerCase[k] : k \in 1..Len(LowerCase)} |->
        UpperCase[CHOOSE k \in 1..Len(LowerCase) : LowerCase[k] = c]]

\* the cased characters
Letters == DOMAIN UpperOf \cup DOMAIN LowerOf

\* str.title(): a letter is put in upper case when no letter precedes it and
\* in lower case when one does
title(s) ==
    Join([k \in 1..Len(s) |->
            LET c == Char(s, k)
                follows_letter == k > 1 /\ Char(s, k - 1) \in Letters
            IN  IF follows_letter THEN LowerChar(c)
                ELSE IF c \in DOMAIN UpperOf THEN UpperOf[c] ELSE c])

\* PDFProcessor._format_key_phrases
_format_key_phrases(phrases) ==
    IF phrases = <<>>
    THEN <<Line("bullet", "No significant key phrases identified")>>
    ELSE [k \in 1..Len(Take(phrases, MaxRenderedPhrases)) |->
            Line("bullet", title(phrases[k]))]

\* the page marker the text extraction writes before every page
PageMarker == "--- Page"

RECURSIVE SplitAt(_, _, _)
\* str.split(sep) from position i on: the pieces between the occurrences of
\* sep, found from the left without overlap
SplitAt(s, sep, i) ==
    LET hits == {j \in i..(Len(s) - Len(sep) + 1) : SubSeq(s, j, j + Len(sep) - 1) = sep}
    IN  IF hits = {} THEN <<SubSeq(s, i, Len(s))>>
        ELSE LET j == CHOOSE h \in hits : \A g \in hits : h <= g
             IN  <<SubSeq(s, i, j - 1)>> \o SplitAt(s, sep, j + Len(sep))

\* str.split(sep)
split_sep(s, sep) == SplitAt(s, sep, 1)

\* the keyword lists of _analyze_structure and the element each one reports
StructureKeywords ==
    << <<"abstract", "summary">>,
       <<"introduction", "background">>,
       <<"conclusion", "results", "findings">>,
       <<"reference", "bibliography", "citation">>,
       <<"table", "figure", "chart">> >>

StructureElements ==
    <<"Abstract/Summary section", "Introduction/Background", "Conclusion/Results section",
      "References/Bibliography", "Tables/Figures present">>

\* a page count that is the number of pieces after the first, whatever the
\* first piece holds
PageCountAfterFirstPiece(t) == Len(split_sep(t, PageMarker)) - 1

\* page_count of _analyze_structure
PageCount(t) ==
    LET pages == split_sep(t, PageMarker)
    IN  IF strip(pages[1]) = "" THEN Len(pages) - 1 ELSE Len(pages)

\* PDFProcessor._analyze_structure
_analyze_structure(t) ==
    LET text_lower == lower(t)
        found == SelectSeq([k \in 1..Len(StructureKeywords) |-> k],
                           LAMBDA k : ContainsAny(text_lower, StructureKeywords[k]))
    IN  <<Line("bullet", "Document has " \o ToString(PageCount(t)) \o " pages")>>
        \o (IF found # <<>>
            THEN [r \in 1..Len(found) |-> Line("bullet", StructureElements[found[r]])]
            ELSE <<Line("bullet", "Standard document structure")>>)

\* three decimal digits of n, with leading zeros
ThreeDigits(n) ==
    (IF n < 100 THEN "0" ELSE "") \o (IF n < 10 THEN "0" ELSE "") \o ToString(n)

RECURSIVE FormatThousands(_)
\* f"{n:,}"
FormatThousands(n) ==
    IF n < 1000 THEN ToString(n)
    ELSE FormatThousands(n \div 1000) \o "," \o ThreeDigits(n % 1000)

\* _get_summary_labels without the key 'title'
SummaryLabelsWithoutTitle ==
    [doc_stats |-> "Document Statistics", total_words |-> "Total Words"]

\* PDFProcessor._get_summary_labels
_get_summary_labels ==
    [title |-> "PDF Document Analysis",
     doc_stats |-> "Document Statistics",
     total_words |-> "Total Words",
     total_sentences |-> "Total Sentences",
     total_characters |-> "Total Characters",
     reading_time |-> "Estimated Reading Time",
     key_phrases |-> "Key Phrases",
     important_content |-> "Important Content",
     content_structure |-> "Content Structure",
     insights |-> "Document Insights",
     main_topics |-> "Main Topics"]

\* the width of the rule under the title
RuleWidth == 60
(***************************************************************************)
(* SpecSummary: one call of _generate_local_summary, statement by statement *)
(***************************************************************************)

\* the frame of _generate_local_summary before its first statement: the
\* results of the analysis calls, the sentence list each extractor worked on
\* (`seen`), and the names of the methods called so far
EmptyFrame ==
    [key_phrases |-> <<>>, important_sentences |-> <<>>, main_points |-> <<>>,
     key_insights |-> <<>>, action_items |-> <<>>,
     seen |-> <<>>, calls |-> <<>>]

\* the text of the end-to-end example
EndToEndText ==
    "The main finding of this study is significant. However, the data shows otherwise. In conclusion, we recommend further research."

\* how many blocks an assembled text of SpecSummary holds, at most
MaxSummaryBlocks == 2

\* the texts of SpecSummary: empty and whitespace-only texts, texts with no
\* sentence of more than 10 characters, a text with page markers, the
\* end-to-end example, and texts assembled from the main-point blocks
SummaryTexts ==
    {"", " ", " \n\t ", "Hi.", "ok", ". ! ?", "no delimiter in this line",
     "--- Page 1 ---\nAbstract. This suggests the impact must be large, therefore we should act.\n--- Page 2 ---\nTable 1",
     EndToEndText}
    \cup {Concat(p, Len(p)) : p \in SeqsUpTo(MainPointBlocks, MaxSummaryBlocks)}

\* The results of the pure methods for the texts of the model, evaluated
\* once each: the statements below look them up.
SentencesOfText == [t \in SummaryTexts |-> _split_into_sentences(t)]
WordCountOfText == [t \in SummaryTexts |-> Len(split(t))]
KeyPhrasesOfText == [t \in SummaryTexts |-> _extract_key_phrases(t)]
MainPointsOfText == [t \in SummaryTexts |-> _extract_main_points_locals(t)]
KeyInsightsOfText == [t \in SummaryTexts |-> _extract_key_insights(t)]
ActionItemsOfText == [t \in SummaryTexts |-> _extract_action_items(t)]
PagesOfText == [t \in SummaryTexts |-> split_sep(t, PageMarker)]
ImportantOfSentences ==
    [sents \in {SentencesOfText[t] : t \in SummaryTexts} |->
        _extract_important_sentences_locals(sents)]

\* _extract_important_sentences_locals(sents), looked up when the list is known
ImportantAtReturn(sents) ==
    IF sents \in DOMAIN ImportantOfSentences
    THEN ImportantOfSentences[sents]
    ELSE _extract_important_sentences_locals(sents)

InitSummary ==
    /\ text \in SummaryTexts
    /\ sentences = <<>>
    /\ word_count = 0
    /\ result = <<>>
    /\ locals = EmptyFrame
    /\ pc = "input"
    /\ GuiIdle

\* lines 155-156 with the test `not text_content` in place of
\* `not text_content.strip()`
SummaryCheckTextUntrimmed ==
    /\ pc = "input"
    /\ IF text = ""
       THEN /\ result' = "No text content found in the PDF."
            /\ pc' = "_generate_local_summary"
       ELSE /\ result' = result
            /\ pc' = "line 159"
    /\ UNCHANGED <<text, sentences, word_count, locals>>
    /\ UNCHANGED guiVars

\* lines 155-156: the test of the text and the placeholder
SummaryCheckText ==
    /\ pc = "input"
    /\ IF strip(text) = ""
       THEN /\ result' = "No text content found in the PDF."
            /\ pc' = "_generate_local_summary"
       ELSE /\ result' = result
            /\ pc' = "line 159"
    /\ UNCHANGED <<text, sentences, word_count, locals>>
    /\ UNCHANGED guiVars

\* lines 159-164: the segmenter call and the word count
SummarySegment ==
    /\ pc = "line 159"
    /\ sentences' = SentencesOfText[text]
    /\ word_count' = WordCountOfText[text]
    /\ locals' = [locals EXCEPT !.calls = Append(@, "_split_into_sentences")]
    /\ pc' = "line 167"
    /\ UNCHANGED <<text, result>>
    /\ UNCHANGED guiVars

\* line 167
SummaryKeyPhrases ==
    /\ pc = "line 167"
    /\ locals' = [locals EXCEPT !.key_phrases = KeyPhrasesOfText[text],
                                !.calls = Append(@, "_extract_key_phrases")]
    /\ pc' = "line 168"
    /\ UNCHANGED <<text, sentences, word_count, result>>
    /\ UNCHANGED guiVars

\* line 168: the scorer is handed the list `sentences` itself
SummaryImportantSentences ==
    /\ pc = "line 168"
    /\ sentences' = ImportantAtReturn(sentences).sentences
    /\ locals' = [locals EXCEPT
                     !.important_sentences = ImportantAtReturn(sentences).selected_sentences,
                     !.seen = Append(@, sentences),
                     !.calls = Append(@, "_extract_important_sentences")]
    /\ pc' = "line 169"
    /\ UNCHANGED <<text, word_count, result>>
    /\ UNCHANGED guiVars

\* line 169: _extract_main_points segments the text again
SummaryMainPoints ==
    /\ pc = "line 169"
    /\ locals' = [locals EXCEPT !.main_points = MainPointsOfText[text].returned,
                                !.seen = Append(@, MainPointsOfText[text].sentences),
                                !.calls = Append(@, "_extract_main_points")]
    /\ pc' = "line 170"
    /\ UNCHANGED <<text, sentences, word_count, result>>
    /\ UNCHANGED guiVars

\* line 170: _extract_key_insights segments the text again
SummaryKeyInsights ==
    /\ pc = "line 170"
    /\ locals' = [locals EXCEPT !.key_insights = KeyInsightsOfText[text],
                                !.seen = Append(@, SentencesOfText[text]),
                                !.calls = Append(@, "_extract_key_insights")]
    /\ pc' = "line 171"
    /\ UNCHANGED <<text, sentences, word_count, result>>
    /\ UNCHANGED guiVars

\* line 171: _extract_action_items segments the text again
SummaryActionItems ==
    /\ pc = "line 171"
    /\ locals' = [locals EXCEPT !.action_items = ActionItemsOfText[text],
                                !.seen = Append(@, SentencesOfText[text]),
                                !.calls = Append(@, "_extract_action_items")]
    /\ pc' = "line 174"
    /\ UNCHANGED <<text, sentences, word_count, result>>
    /\ UNCHANGED guiVars

\* what raises in lines 174-202: a label looked up under a key its dict does
\* not hold, or pages[0] of an empty list.  The divisions of
\* _assess_complexity come after its return for an empty word list.
RenderRaises ==
    \/ "title" \notin DOMAIN _get_summary_labels
    \/ word_count < avg_wpm /\ "less_than_minute" \notin DOMAIN _get_time_labels
    \/ PagesOfText[text] = <<>>

\* the report of lines 177-202 for the frame, the word count and the text,
\* section by section; the headings between the sections are fixed text
Report(frame, wc, t) ==
    [title |-> _get_summary_labels.title,
     rule |-> Repeat("=", RuleWidth),
     main_points |-> _format_main_points(frame.main_points),
     key_insights |-> _format_key_insights(frame.key_insights),
     important_content |-> _format_important_sentences(frame.important_sentences),
     key_phrases |-> _format_key_phrases(frame.key_phrases),
     action_items |-> _format_action_items(frame.action_items),
     total_words |-> FormatThousands(wc),
     reading_time |-> _estimate_reading_time(wc),
     content_type |-> _identify_document_type(t),
     complexity |-> _assess_complexity(t),
     structure |-> _analyze_structure(t)]

\* the results lines 159-171 leave in the frame for text t
ResultsOfText ==
    [t \in SummaryTexts |->
        [key_phrases |-> KeyPhrasesOfText[t],
         important_sentences |-> ImportantOfSentences[SentencesOfText[t]].selected_sentences,
         main_points |-> MainPointsOfText[t].returned,
         key_insights |-> KeyInsightsOfText[t],
         action_items |-> ActionItemsOfText[t]]]

\* the report for those results, evaluated once for each text that has one
ReportOfText ==
    [t \in {u \in SummaryTexts : "title" \in DOMAIN _get_summary_labels} |->
        Report(ResultsOfText[t], WordCountOfText[t], t)]

\* Report(frame, wc, t), looked up when the frame holds the results above
ReportFor(frame, wc, t) ==
    IF /\ t \in DOMAIN ReportOfText
       /\ wc = WordCountOfText[t]
       /\ \A f \in DOMAIN ResultsOfText[t] : frame[f] = ResultsOfText[t][f]
    THEN ReportOfText[t]
    ELSE Report(frame, wc, t)

\* lines 174-204: the labels, the formatters, the overview and the return
SummaryRender ==
    /\ pc = "line 174"
    /\ IF RenderRaises
       THEN /\ pc' = "raised"
            /\ result' = result
       ELSE /\ pc' = "_generate_local_summary"
            /\ result' = ReportFor(locals, word_count, text)
    /\ locals' = [locals EXCEPT !.calls = Append(@, "render")]
    /\ UNCHANGED <<text, sentences, word_count>>
    /\ UNCHANGED guiVars

NextSummary ==
    \/ SummaryCheckText
    \/ SummarySegment
    \/ SummaryKeyPhrases
    \/ SummaryImportantSentences
    \/ SummaryMainPoints
    \/ SummaryKeyInsights
    \/ SummaryActionItems
    \/ SummaryRender

SpecSummary == InitSummary /\ [][NextSummary]_vars

\* the call runs on one thread, statement after statement, with nothing to
\* wait for: a statement that can run does run
FairSpecSummary == SpecSummary /\ WF_vars(NextSummary)

(***************************************************************************)
(* C11 .. C14                                                              *)
(***************************************************************************)

\* C11: for empty or whitespace-only text _generate_local_summary returns
\* the placeholder beginning "No text content found" instead of raising, and
\* runs no extractor, classifier or renderer step.
C11_EmptyTextGivesPlaceholder ==
    strip(text) = "" =>
        /\ pc \in {"input", "_generate_local_summary"}
        /\ locals = EmptyFrame
        /\ sentences = <<>>
        /\ pc = "_generate_local_summary" =>
              startswith(result, "No text content found")

\* a whitespace-only text for which the call has returned
C11_Witness ==
    /\ text = " \n\t "
    /\ pc = "_generate_local_summary"
    /\ result = "No text content found in the PDF."
\* a section of the report: one line at least, each with a marker and a body
IsSection(lines) ==
    /\ Len(lines) >= 1
    /\ \A k \in 1..Len(lines) : DOMAIN lines[k] = {"marker", "body"}

\* C12: for every text that is not empty or whitespace only, including text
\* with no sentence longer than 10 characters, no key phrase and no indicator
\* match, _generate_local_summary completes and returns a report; no step of
\* the core raises.
C12_NonEmptyTextGivesReport ==
    /\ [](strip(text) # "" =>
            /\ pc # "raised"
            /\ pc = "_generate_local_summary" =>
                  /\ result.title = "PDF Document Analysis"
                  /\ IsSection(result.main_points)
                  /\ IsSection(result.key_insights)
                  /\ IsSection(result.important_content)
                  /\ IsSection(result.key_phrases)
                  /\ IsSection(result.action_items)
                  /\ IsSection(result.structure)
                  /\ result.total_words = FormatThousands(Len(split(text)))
                  /\ result.reading_time # ""
                  /\ result.content_type # ""
                  /\ result.complexity # "Unknown")
    /\ (strip(text) # "" ~> pc = "_generate_local_summary")

\* the report of a text with no sentence, no key phrase and no indicator match
C12_Witness ==
    /\ text = "Hi."
    /\ pc = "_generate_local_summary"
    /\ sentences = <<>>
    /\ locals.key_phrases = <<>>
    /\ result.main_points = <<Line("bullet", "No clear main points identified in the document")>>
    /\ result.important_content = <<Line("bullet", "No significant sentences identified")>>

\* sentence 1 and sentence 3 of the end-to-end example
EndToEndSentence1 == "The main finding of this study is significant"
EndToEndSentence3 == "In conclusion, we recommend further research"

\* s is an entry of the list
Holds(list, s) == \E k \in 1..Len(list) : list[k] = s

\* C13: for the end-to-end example text, Main Points contains sentence 1 and
\* sentence 3, and Action Items contains sentence 3.
C13_EndToEndExample ==
    (text = EndToEndText /\ pc = "_generate_local_summary") =>
        /\ Holds(locals.main_points, EndToEndSentence1)
        /\ Holds(locals.main_points, EndToEndSentence3)
        /\ Holds(locals.action_items, EndToEndSentence3)

\* the call has returned for the example text, with three sentences segmented
C13_Witness ==
    /\ text = EndToEndText
    /\ pc = "_generate_local_summary"
    /\ Len(sentences) = 3
    /\ sentences[1] = EndToEndSentence1
    /\ sentences[3] = EndToEndSentence3
    /\ locals.action_items = <<EndToEndSentence3>>

\* C14: all extractors (important sentences, main points, key insights,
\* action items) work on the same sentence sequence, equal to the segmenter's
\* output for the raw text, and no extractor or scorer call changes the text
\* or the sentence sequence passed to it.
C14_SameSentencesUnchanged ==
    [][/\ text' = text
       /\ pc # "line 159" => sentences' = sentences
       /\ pc' \notin {"input", "line 159"} /\ strip(text) # "" =>
             sentences' = _split_into_sentences(text)
       /\ \A k \in 1..Len(locals'.seen) : locals'.seen[k] = _split_into_sentences(text)]_vars

\* all four extractors have run on a list of several sentences of which the
\* highest-scoring is not the first
C14_Witness ==
    /\ pc = "_generate_local_summary"
    /\ Len(locals.seen) = 4
    /\ Len(sentences) >= 3
    /\ locals.important_sentences # <<>>
    /\ locals.important_sentences[1] # sentences[1]
(***************************************************************************)
(* C15                                                                     *)
(***************************************************************************)

\* the tuple a comes before the tuple b in the order of the pass: higher
\* score first, equal scores in document order
Before(a, b) == a[1] > b[1] \/ (a[1] = b[1] /\ a[3] < b[3])

\* the places, in the sorted list, of the accepted candidates
AcceptedPlaces(sorted, selected_indices) ==
    {k \in 1..Len(sorted) :
        \E r \in 1..Len(selected_indices) : sorted[k][3] = selected_indices[r]}

\* C15: important-sentence selection is the greedy pass over the candidates
\* in order of score descending, equal scores in document order: a candidate
\* is accepted iff fewer than 5 were accepted before it and no accepted index
\* is closer than 3 to its own; the result is in acceptance order, and for a
\* non-empty list its first element is the earliest of the highest-scoring
\* sentences.
C15_GreedyPassInScoreOrder ==
    pc = "_extract_important_sentences" =>
        LET n == Len(sentences)
            scored == ScoredSentences(sentences)
            sorted == locals.scored_sentences
            selected == locals.selected_indices
            accepted == AcceptedPlaces(sorted, selected)
            place(r) == CHOOSE k \in 1..n : sorted[k][3] = selected[r]
        IN  /\ Len(sorted) = n
            /\ \A k \in 1..n : \E j \in 1..n : sorted[j] = scored[k]
            /\ \A a, b \in 1..n : a < b => Before(sorted[a], sorted[b])
            /\ \A k \in 1..n :
                  k \in accepted <=>
                      /\ Cardinality({j \in accepted : j < k}) < 5
                      /\ \A j \in accepted : j < k => Abs(sorted[j][3] - sorted[k][3]) >= 3
            /\ Len(selected) <= 5
            /\ \A a, b \in 1..Len(selected) : a < b => place(a) < place(b)
            /\ Len(result) = Len(selected)
            /\ \A r \in 1..Len(selected) : result[r] = sentences[selected[r] + 1]
            /\ n > 0 =>
                  /\ result # <<>>
                  /\ \A k \in 1..n : scored[selected[1] + 1][1] >= scored[k][1]
                  /\ \A k \in 1..selected[1] : scored[k][1] < scored[selected[1] + 1][1]

\* five candidates were accepted, candidates of equal score were passed in
\* document order, and the pass stopped before a candidate that no accepted
\* index is close to
C15_Witness ==
    /\ pc = "_extract_important_sentences"
    /\ Len(result) = 5
    /\ \E k \in 1..(Len(sentences) - 1) :
          locals.scored_sentences[k][1] = locals.scored_sentences[k + 1][1]
    /\ \E i \in 0..(Len(sentences) - 1) :
          \A r \in 1..5 : Abs(i - locals.selected_indices[r]) >= 3
(***************************************************************************)
(* The position bands of the scorer                                        *)
(***************************************************************************)

\* how many sentences the lists of SpecPosition hold, at most
MaxPositionTotal == 40

\* the loop of _extract_important_sentences is at sentence i of total_sentences
InitPosition ==
    /\ text = ""
    /\ sentences = <<>>
    /\ word_count = 0
    /\ result = 0
    /\ \E total \in 1..MaxPositionTotal : \E i \in 0..(total - 1) :
          locals = [i |-> i, total_sentences |-> total]
    /\ pc = "line 273"
    /\ GuiIdle

\* lines 273-280: the position contribution is added to the score
ScorePosition ==
    /\ pc = "line 273"
    /\ pc' = "line 282"
    /\ result' = PositionScore(locals.i, locals.total_sentences)
    /\ UNCHANGED <<text, sentences, word_count, locals>>
    /\ UNCHANGED guiVars

NextPosition == ScorePosition

SpecPosition == InitPosition /\ [][NextPosition]_vars

(***************************************************************************)
(* C16                                                                     *)
(***************************************************************************)

\* the three bands, each checked on its own
FirstBand(i, N) == 100 * i < 15 * N
LastBand(i, N) == 100 * i > 85 * N
MiddleBand(i, N) == 4 * N <= 10 * i /\ 10 * i <= 6 * N

\* C16: for every sentence count N >= 1 and every index 0 <= i < N at most
\* one of the bands i < 0.15 N, i > 0.85 N, 0.4 N <= i <= 0.6 N holds, so the
\* contribution of the if/elif chain equals that of three independent checks.
C16_BandsExclusive ==
    LET i == locals.i
        N == locals.total_sentences
    IN  /\ N >= 1 /\ 0 <= i /\ i < N
        /\ ~(FirstBand(i, N) /\ LastBand(i, N))
        /\ ~(FirstBand(i, N) /\ MiddleBand(i, N))
        /\ ~(LastBand(i, N) /\ MiddleBand(i, N))
        /\ pc = "line 282" =>
              result = (IF FirstBand(i, N) THEN 2 ELSE 0)
                       + (IF LastBand(i, N) THEN 2 ELSE 0)
                       + (IF MiddleBand(i, N) THEN 1 ELSE 0)

\* the contribution was computed for a sentence in the middle band, at its
\* upper edge, of a list that has sentences in each of the bands
C16_Witness ==
    /\ pc = "line 282"
    /\ result = 1
    /\ 10 * locals.i = 6 * locals.total_sentences
    /\ locals.total_sentences >= 20

(***************************************************************************)
(* The keyword contribution of the scorer                                  *)
(***************************************************************************)

\* what the sentences of SpecKeywords are made of
KeywordBlocks == <<"The key ", "Main ", "plain ", "keyhole ", "process, ">>

\* how many blocks a sentence of SpecKeywords holds, at most
MaxKeywordBlocks == 3

\* the loop of _extract_important_sentences is at a sentence, held in text
InitKeywords ==
    /\ \E blocks \in SeqsUpTo(1..Len(KeywordBlocks), MaxKeywordBlocks) :
          text = Join([k \in 1..Len(blocks) |-> KeywordBlocks[blocks[k]]])
    /\ sentences = <<>>
    /\ word_count = 0
    /\ result = 0
    /\ locals = <<>>
    /\ pc = "line 283"
    /\ GuiIdle

\* lines 283-284: the keyword contribution is added to the score
ScoreKeywords ==
    /\ pc = "line 283"
    /\ pc' = "line 286"
    /\ locals' = [sentence_lower |-> lower(text),
                  keyword_count |-> KeywordCount(lower(text))]
    /\ result' = locals'.keyword_count * 2
    /\ UNCHANGED <<text, sentences, word_count>>
    /\ UNCHANGED guiVars

NextKeywords == ScoreKeywords

SpecKeywords == InitKeywords /\ [][NextKeywords]_vars

(***************************************************************************)
(* C17                                                                     *)
(***************************************************************************)

\* the places where the term starts in the string
StartsOf(s, term) ==
    {i \in 1..(Len(s) - Len(term) + 1) : SubSeq(s, i, i + Len(term) - 1) = term}

\* the importance keywords, as a set
KeywordTerms == {important_keywords[k] : k \in 1..Len(important_keywords)}

\* the occurrences of keyword terms in the string: (term, place) pairs
KeywordOccurrences(s) ==
    UNION {{<<term, i>> : i \in StartsOf(s, term)} : term \in KeywordTerms}

\* C17 as stated: the keyword contribution is 2 times the count of
\* occurrences of keyword terms in the lowercased sentence.
C17_Original ==
    pc = "line 286" =>
        result = 2 * Cardinality(KeywordOccurrences(lower(text)))

\* C17, amended: the keyword contribution is 2 times the number of distinct
\* keyword terms that occur in the lowercased sentence, however often each
\* occurs; it is 2 times the count of occurrences only when no term occurs
\* twice.
C17_TwicePresentKeywords ==
    pc = "line 286" =>
        LET sentence_lower == lower(text)
            occurrences == KeywordOccurrences(sentence_lower)
            present == {term \in KeywordTerms : \E o \in occurrences : o[1] = term}
        IN  /\ result = 2 * Cardinality(present)
            /\ result <= 2 * Cardinality(occurrences)
            /\ result = 2 * Cardinality(occurrences)
                  <=> \A o, q \in occurrences : o[1] = q[1] => o = q

\* a sentence in which one keyword occurs three times and another once
\* was scored
C17_Witness ==
    /\ pc = "line 286"
    /\ Cardinality(StartsOf(lower(text), "key")) = 3
    /\ Cardinality(StartsOf(lower(text), "process")) = 0
    /\ Cardinality(StartsOf(lower(text), "main")) = 0
    /\ result = 2
(***************************************************************************)
(* C18                                                                     *)
(***************************************************************************)

\* the point was appended by the scan of the sentences
IsDirectMatch(point) == \E k \in 1..Len(locals.scanned) : locals.scanned[k] = point

\* the place in the document of the first sentence the point was scanned from
FirstPlace(point) ==
    CHOOSE k \in 1..Len(locals.sentences) :
        /\ strip(locals.sentences[k]) = point
        /\ \A j \in 1..(k - 1) : strip(locals.sentences[j]) # point

\* C18: the main points are topped up with the first 5 important sentences
\* exactly when the scan found fewer than 3; in the returned list every
\* direct match precedes every sentence that entered only through the
\* top-up, and the direct matches are in document order.
C18_TopUpAfterDirectMatches ==
    pc = "_extract_main_points" =>
        LET found == SumOver([k \in 1..Len(locals.sentences) |->
                                 Len(DirectMatches(locals.sentences[k]))],
                             Len(locals.sentences))
            important == _extract_important_sentences(locals.sentences)
        IN  /\ Len(locals.scanned) = found
            /\ locals.topped_up <=> found < 3
            /\ locals.main_points =
                  locals.scanned \o (IF found < 3 THEN Take(important, 5) ELSE <<>>)
            /\ \A a \in 1..Len(result) :
                  \E k \in 1..Len(locals.main_points) : locals.main_points[k] = result[a]
            /\ \A a, b \in 1..Len(result) :
                  a < b /\ IsDirectMatch(result[b]) =>
                      /\ IsDirectMatch(result[a])
                      /\ FirstPlace(result[a]) < FirstPlace(result[b])

\* the scan found two points, the list was topped up, and the returned list
\* holds the two direct matches and after them a sentence from the top-up
C18_Witness ==
    /\ pc = "_extract_main_points"
    /\ Len(locals.scanned) = 2
    /\ locals.topped_up
    /\ Len(result) >= 3
    /\ IsDirectMatch(result[1])
    /\ IsDirectMatch(result[2])
    /\ ~IsDirectMatch(result[3])

\* the scan found three or more points and the list was not topped up
C18_WitnessNoTopUp ==
    /\ pc = "_extract_main_points"
    /\ Len(locals.scanned) = 3
    /\ ~locals.topped_up
    /\ \E k \in 1..Len(locals.sentences) : ~IsDirectMatch(locals.sentences[k])
(***************************************************************************)
(* SpecIndicators: one call of _extract_key_insights or                    *)
(* _extract_action_items                                                   *)
(***************************************************************************)

\* a sentence of n characters: the opening, then filler
Padded(opening, n) == opening \o Repeat("x", n - Len(opening))

\* the blocks the texts of SpecIndicators are assembled from: sentences at
\* the ends of the two length ranges, and sentences of middling length
IndicatorBlocks ==
    {Padded("thus ", 24) \o ". " \o Padded("Thus ", 25) \o ". ",
     Padded("Hence ", 280) \o ". " \o Padded("hence ", 281) \o ". ",
     Padded("we must ", 19) \o ". " \o Padded("We must ", 20) \o ". ",
     Padded("You should ", 250) \o ". " \o Padded("you should ", 251) \o ". ",
     "Therefore we recommend this approach to everyone. Plain filler sentence here. ",
     "It seems fine and we should ensure it! It appears we need to follow up. "}

\* how many blocks a text of SpecIndicators is assembled from, at most
MaxIndicatorBlocks == 3

IndicatorTexts ==
    {Concat(p, Len(p)) : p \in SeqsUpTo(IndicatorBlocks, MaxIndicatorBlocks)}

InitIndicators ==
    /\ text \in IndicatorTexts
    /\ sentences = <<>>
    /\ word_count = 0
    /\ result = <<>>
    /\ locals = <<>>
    /\ pc = "input"
    /\ GuiIdle

CallExtractKeyInsights ==
    /\ pc = "input"
    /\ pc' = "_extract_key_insights"
    /\ result' = _extract_key_insights(text)
    /\ UNCHANGED <<text, sentences, word_count, locals>>
    /\ UNCHANGED guiVars

CallExtractActionItems ==
    /\ pc = "input"
    /\ pc' = "_extract_action_items"
    /\ result' = _extract_action_items(text)
    /\ UNCHANGED <<text, sentences, word_count, locals>>
    /\ UNCHANGED guiVars

NextIndicators ==
    \/ CallExtractKeyInsights
    \/ CallExtractActionItems

SpecIndicators == InitIndicators /\ [][NextIndicators]_vars

(***************************************************************************)
(* C19                                                                     *)
(***************************************************************************)

\* the places of the sentences that hold an indicator and have a length in range
Qualifying(sents, indicators, min_len, max_len) ==
    {k \in 1..Len(sents) :
        /\ Len(sents[k]) >= min_len
        /\ Len(sents[k]) <= max_len
        /\ LET sentence_lower == lower(sents[k])
           IN  \E n \in 1..Len(indicators) : Contains(sentence_lower, indicators[n])}

\* the list is the sentences at the first 3 places of the set, or at all of
\* them if there are fewer, in the order of the places
IsFirstThreeOf(list, sents, places) ==
    /\ Len(list) = IF Cardinality(places) < 3 THEN Cardinality(places) ELSE 3
    /\ \A r \in 1..Len(list) :
          \E k \in places :
              /\ Cardinality({j \in places : j < k}) = r - 1
              /\ list[r] = strip(sents[k])

\* C19: Key Insights and Action Items each return exactly the first 3 (or
\* all, if fewer exist) sentences, in document order, that contain one of the
\* extractor's indicator phrases and whose length lies in the extractor's
\* range: 25 to 280 for insights, 20 to 250 for actions.
C19_FirstThreeQualifyingSentences ==
    LET sents == _split_into_sentences(text)
    IN  /\ pc = "_extract_key_insights" =>
              IsFirstThreeOf(result, sents, Qualifying(sents, insight_indicators, 25, 280))
        /\ pc = "_extract_action_items" =>
              IsFirstThreeOf(result, sents, Qualifying(sents, action_indicators, 20, 250))

\* key insights were extracted from a text with four qualifying sentences,
\* one of them of 280 characters and among those returned, and with a
\* sentence of 281 characters that holds an indicator
C19_Witness ==
    LET sents == _split_into_sentences(text)
    IN  /\ pc = "_extract_key_insights"
        /\ Cardinality(Qualifying(sents, insight_indicators, 25, 280)) = 4
        /\ \E r \in 1..Len(result) : Len(result[r]) = 280
        /\ Qualifying(sents, insight_indicators, 281, 281) # {}
        /\ Qualifying(sents, insight_indicators, 24, 24) # {}

\* action items were extracted from a text with more than three qualifying
\* sentences, and with sentences of 19 and of 251 characters that hold an
\* indicator
C19_WitnessActions ==
    LET sents == _split_into_sentences(text)
    IN  /\ pc = "_extract_action_items"
        /\ Cardinality(Qualifying(sents, action_indicators, 20, 250)) > 3
        /\ Qualifying(sents, action_indicators, 251, 251) # {}
(***************************************************************************)
(* SpecFormat: one call of a list formatter                                *)
(***************************************************************************)

\* the entries the lists of SpecFormat hold: sentences as the extractors
\* return them, of lengths at and next to the limits of the formatters, some
\* ending in a comma
FormatEntries ==
    {Padded("Thus we must ", n) : n \in {170, 171, 180, 181, 200, 201}}
    \cup {Padded("Thus we must ", n) \o "," : n \in {170, 180, 200}}
    \cup {"Thus we must act now,"}

\* how many entries a list of SpecFormat holds, at most
MaxFormatEntries == 2

InitFormat ==
    /\ text = ""
    /\ sentences \in SeqsUpTo(FormatEntries, MaxFormatEntries)
    /\ word_count = 0
    /\ result = <<>>
    /\ locals = <<>>
    /\ pc = "input"
    /\ GuiIdle

FormatMainPoints ==
    /\ pc = "input"
    /\ pc' = "_format_main_points"
    /\ result' = _format_main_points(sentences)
    /\ UNCHANGED <<text, sentences, word_count, locals>>
    /\ UNCHANGED guiVars

FormatKeyInsights ==
    /\ pc = "input"
    /\ pc' = "_format_key_insights"
    /\ result' = _format_key_insights(sentences)
    /\ UNCHANGED <<text, sentences, word_count, locals>>
    /\ UNCHANGED guiVars

FormatImportantSentences ==
    /\ pc = "input"
    /\ pc' = "_format_important_sentences"
    /\ result' = _format_important_sentences(sentences)
    /\ UNCHANGED <<text, sentences, word_count, locals>>
    /\ UNCHANGED guiVars

FormatActionItems ==
    /\ pc = "input"
    /\ pc' = "_format_action_items"
    /\ result' = _format_action_items(sentences)
    /\ UNCHANGED <<text, sentences, word_count, locals>>
    /\ UNCHANGED guiVars

NextFormat ==
    \/ FormatMainPoints
    \/ FormatKeyInsights
    \/ FormatImportantSentences
    \/ FormatActionItems

SpecFormat == InitFormat /\ [][NextFormat]_vars

(***************************************************************************)
(* C20                                                                     *)
(***************************************************************************)

\* the entry without surrounding whitespace and, if asked, without the
\* punctuation at its end: the longest beginning of the trimmed entry that
\* does not end in '.', ',', '!' or '?'
Cleaned(entry, punctuation_off) ==
    LET trimmed == strip(entry)
    IN  IF ~punctuation_off THEN trimmed
        ELSE LET n == CHOOSE m \in 0..Len(trimmed) :
                          /\ m = 0 \/ Char(trimmed, m) \notin {".", ",", "!", "?"}
                          /\ \A j \in (m + 1)..Len(trimmed) :
                                Char(trimmed, j) \in {".", ",", "!", "?"}
             IN  SubSeq(trimmed, 1, n)

\* every line has a body of at most `limit` characters; the line of an entry
\* is the cleaned entry if that has at most `limit` characters, and else its
\* first limit - 3 characters and "..."
WithinLimit(lines, entries, limit, punctuation_off) ==
    /\ \A k \in 1..Len(lines) : Len(lines[k].body) <= limit
    /\ entries # <<>> =>
          /\ Len(lines) = Len(entries)
          /\ \A k \in 1..Len(lines) :
                LET clean == Cleaned(entries[k], punctuation_off)
                IN  /\ Len(clean) <= limit => lines[k].body = clean
                    /\ Len(clean) > limit =>
                          /\ Len(lines[k].body) = limit
                          /\ SubSeq(lines[k].body, 1, limit - 3) = SubSeq(clean, 1, limit - 3)
                          /\ SubSeq(lines[k].body, limit - 2, limit) = "..."

\* C20: every rendered list entry (Main Points limit 200, Key Insights 180,
\* Important Sentences 180, Action Items 170) has a body of at most the
\* limit: a cleaned entry no longer than the limit is rendered unchanged, a
\* longer one as its first limit - 3 characters followed by "...".
C20_EntriesWithinLimit ==
    /\ pc = "_format_main_points" => WithinLimit(result, sentences, 200, TRUE)
    /\ pc = "_format_key_insights" => WithinLimit(result, sentences, 180, TRUE)
    /\ pc = "_format_important_sentences" => WithinLimit(result, sentences, 180, FALSE)
    /\ pc = "_format_action_items" => WithinLimit(result, sentences, 170, TRUE)

\* main points were rendered: an entry of 201 characters ending in a comma
\* came out as its first 200, and an entry of 201 characters without
\* punctuation at its end came out cut, with the ellipsis
C20_Witness ==
    /\ pc = "_format_main_points"
    /\ Len(result) = 2
    /\ Len(sentences[1]) = 201
    /\ Len(sentences[2]) = 201
    /\ result[1].body = SubSeq(sentences[1], 1, 200)
    /\ result[2].body = SubSeq(sentences[2], 1, 197) \o "..."
(***************************************************************************)
(* C21                                                                     *)
(***************************************************************************)

\* the filtered token stream: the tokens that are no stop-word and are longer
\* than 3 characters
FilteredTokens(t) ==
    SelectSeq(CleanTokens(t), LAMBDA w : w \notin stop_words /\ Len(w) > 3)

\* the place where a token is first seen in a stream that holds it
FirstSeen(tokens, w) ==
    CHOOSE k \in 1..Len(tokens) :
        tokens[k] = w /\ \A j \in 1..(k - 1) : tokens[j] # w

\* the place of a token of the set in the ordering by frequency, the more
\* frequent first and, of equally frequent ones, the one seen first
PlaceByFrequency(tokens, set, w) ==
    1 + Cardinality({v \in set :
            \/ Occurrences(tokens, v) > Occurrences(tokens, w)
            \/ /\ Occurrences(tokens, v) = Occurrences(tokens, w)
               /\ FirstSeen(tokens, v) < FirstSeen(tokens, w)})

\* C21: the key-phrase list is ordered by frequency non-increasing with ties
\* in first-seen order of the filtered token stream, and equals the first 10
\* entries of that ordering restricted to the tokens of frequency above 1.
C21_TopTenRepeatedByFrequency ==
    pc = "_extract_key_phrases" =>
        LET tokens == FilteredTokens(text)
            repeated == {tokens[k] : k \in {j \in 1..Len(tokens) :
                                               Occurrences(tokens, tokens[j]) > 1}}
        IN  /\ Len(result) = IF Cardinality(repeated) < 10 THEN Cardinality(repeated) ELSE 10
            /\ \A r \in 1..Len(result) :
                  /\ result[r] \in repeated
                  /\ PlaceByFrequency(tokens, repeated, result[r]) = r
            /\ \A a, b \in 1..Len(result) :
                  a < b =>
                      \/ Occurrences(tokens, result[a]) > Occurrences(tokens, result[b])
                      \/ /\ Occurrences(tokens, result[a]) = Occurrences(tokens, result[b])
                         /\ FirstSeen(tokens, result[a]) < FirstSeen(tokens, result[b])

\* key phrases were extracted from a text with more than 10 distinct filtered
\* tokens, of which some occur once and are among the 10 most frequent, some
\* occur equally often more than once, and one occurs more often than those
C21_Witness ==
    LET tokens == FilteredTokens(text)
        distinct == {tokens[k] : k \in 1..Len(tokens)}
    IN  /\ pc = "_extract_key_phrases"
        /\ Cardinality(distinct) > 10
        /\ Len(result) >= 3
        /\ Len(result) < 10
        /\ Occurrences(tokens, result[1]) > Occurrences(tokens, result[2])
        /\ Occurrences(tokens, result[2]) = Occurrences(tokens, result[3])

\* key phrases were extracted from a text with more than 10 tokens that
\* occur more than once
C21_WitnessMoreThanTen ==
    LET tokens == FilteredTokens(text)
    IN  /\ pc = "_extract_key_phrases"
        /\ Len(result) = 10
        /\ \E k \in 1..Len(tokens) :
              /\ Occurrences(tokens, tokens[k]) > 1
              /\ \A r \in 1..10 : result[r] # tokens[k]
(***************************************************************************)
(* SpecStructure: one call of _analyze_structure                           *)
(***************************************************************************)

\* the texts of the pages of a PDF, as page.extract_text() returns them
PageTexts == {"", " \n", "Abstract of the work", "Results, see --- Page one"}

\* how many pages a PDF of SpecStructure has, at most
MaxPages == 4

\* the text _extract_text_from_pdf builds from the texts of the pages: a
\* marker line and the trimmed text for every page that is not blank, the
\* whole trimmed
ExtractedText(page_texts) ==
    strip(Join([k \in 1..Len(page_texts) |->
                   IF strip(page_texts[k]) # ""
                   THEN "\n--- Page " \o ToString(k) \o " ---\n" \o strip(page_texts[k]) \o "\n"
                   ELSE ""]))

\* the texts _extract_text_from_pdf returns: those that are not empty
ExtractedTexts ==
    {ExtractedText(p) : p \in SeqsUpTo(PageTexts, MaxPages)} \ {""}

\* texts that come from elsewhere: a transcript, text before the first marker
OtherTexts ==
    {"", "  \n", "so today we talk about figures",
     "Preface\n--- Page 1 ---\nIntroduction",
     " \n--- Page 1 ---\nSummary\n--- Page 2 ---\nReferences",
     "--- Page", "--- Page--- Page", "x--- Page 1 ------ Page 2 ---"}

InitStructure ==
    /\ text \in ExtractedTexts \cup OtherTexts
    /\ sentences = <<>>
    /\ word_count = 0
    /\ result = <<>>
    /\ locals = <<>>
    /\ pc = "input"
    /\ GuiIdle

CallAnalyzeStructure ==
    /\ pc = "input"
    /\ pc' = "_analyze_structure"
    /\ locals' = [pages |-> split_sep(text, PageMarker), page_count |-> PageCount(text)]
    /\ result' = _analyze_structure(text)
    /\ UNCHANGED <<text, sentences, word_count>>
    /\ UNCHANGED guiVars

NextStructure == CallAnalyzeStructure

SpecStructure == InitStructure /\ [][NextStructure]_vars

(***************************************************************************)
(* C22                                                                     *)
(***************************************************************************)

\* the places in the text where a page marker starts
Markers(t) == {i \in 1..(Len(t) - 7) : SubSeq(t, i, i + 7) = "--- Page"}

\* the part of the text before its first marker, the whole text if it has none
BeforeFirstMarker(t) ==
    IF Markers(t) = {} THEN t
    ELSE SubSeq(t, 1, (CHOOSE i \in Markers(t) : \A j \in Markers(t) : i <= j) - 1)

\* the text before the first marker, if any, is whitespace
BlankBeforeFirstMarker(t) ==
    \A k \in 1..Len(BeforeFirstMarker(t)) : Char(BeforeFirstMarker(t), k) \in Whitespace

\* C22 as stated: the page count reported equals the number of page markers
\* in the text, for every text.
C22_Original ==
    pc = "_analyze_structure" => locals.page_count = Cardinality(Markers(text))

\* C22, amended: the page count reported equals the number of page markers
\* when the text before the first marker is blank, as it is in every text
\* _extract_text_from_pdf returns, and is one more otherwise; a text without
\* marker that is not blank is reported as 1 page.
C22_PageCountOfMarkers ==
    pc = "_analyze_structure" =>
        /\ locals.page_count =
              Cardinality(Markers(text)) + (IF BlankBeforeFirstMarker(text) THEN 0 ELSE 1)
        /\ text \in ExtractedTexts => locals.page_count = Cardinality(Markers(text))
        /\ Markers(text) = {} /\ strip(text) # "" => locals.page_count = 1
        /\ result[1].body = "Document has " \o ToString(locals.page_count) \o " pages"

\* the structure of a text with two markers and content before the first
\* one was analyzed
C22_Witness ==
    /\ pc = "_analyze_structure"
    /\ Cardinality(Markers(text)) = 2
    /\ ~BlankBeforeFirstMarker(text)
    /\ locals.page_count = 3

\* the structure of an extracted text of several pages, one of them holding
\* the marker in its own text, was analyzed
C22_WitnessExtracted ==
    /\ pc = "_analyze_structure"
    /\ text \in ExtractedTexts
    /\ locals.page_count > 3
(***************************************************************************)
(* SpecDelimiters: the sentences of the segmenter at the question-mark     *)
(* test of the scorer and at the marker test of the main-points scan       *)
(***************************************************************************)

\* the blocks the texts of SpecDelimiters are assembled from
DelimiterBlocks ==
    {"1. First numbered point of the list. ",
     "Is this the key question? ",
     "- dash item is listed here! ",
     "2.5 percent is the growth here?! ",
     "3",
     "plain sentence here "}

\* how many blocks a text of SpecDelimiters is assembled from, at most
MaxDelimiterBlocks == 3

DelimiterTexts ==
    {Concat(p, Len(p)) : p \in SeqsUpTo(DelimiterBlocks, MaxDelimiterBlocks)}

InitDelimiters ==
    /\ text \in DelimiterTexts
    /\ sentences = <<>>
    /\ word_count = 0
    /\ result = <<>>
    /\ locals = <<>>
    /\ pc = "input"
    /\ GuiIdle

\* lines 159 and 401: the text is segmented
SegmentText ==
    /\ pc = "input"
    /\ pc' = "_split_into_sentences"
    /\ sentences' = _split_into_sentences(text)
    /\ UNCHANGED <<text, word_count, result, locals>>
    /\ UNCHANGED guiVars

\* lines 291-292 for every sentence of the loop: the points for '?'
ScoreQuestionMarks ==
    /\ pc = "_split_into_sentences"
    /\ pc' = "line 291"
    /\ locals' = [k \in 1..Len(sentences) |-> QuestionBonus(sentences[k])]
    /\ UNCHANGED <<text, sentences, word_count, result>>
    /\ UNCHANGED guiVars

\* line 421 for every sentence of the scan: the markers the sentence starts with
MatchMarkers ==
    /\ pc = "_split_into_sentences"
    /\ pc' = "line 421"
    /\ locals' = [k \in 1..Len(sentences) |->
                    {m \in 1..Len(BulletMarkers) : StartsWithMarker(sentences[k], m)}]
    /\ UNCHANGED <<text, sentences, word_count, result>>
    /\ UNCHANGED guiVars

NextDelimiters ==
    \/ SegmentText
    \/ ScoreQuestionMarks
    \/ MatchMarkers

SpecDelimiters == InitDelimiters /\ [][NextDelimiters]_vars

(***************************************************************************)
(* C23                                                                     *)
(***************************************************************************)

\* C23: no sentence produced by the segmenter contains '.', '!' or '?';
\* so for the sentences of the pipeline the scorer never awards the point
\* for '?', and the numbering markers '1.', '2.', '3.' of the main-points
\* scan match no sentence.
C23_NoDelimiterInSentences ==
    /\ \A k \in 1..Len(sentences) :
          \A i \in 1..Len(sentences[k]) : Char(sentences[k], i) \notin {".", "!", "?"}
    /\ pc = "line 291" => \A k \in 1..Len(sentences) : locals[k] = 0
    /\ pc = "line 421" =>
          \A k \in 1..Len(sentences) :
              \A m \in locals[k] : BulletMarkers[m] \notin {"1.", "2.", "3."}

\* the markers were matched on the sentences of a text that begins with
\* "1." and holds a question mark, and one sentence matches the dash marker
C23_Witness ==
    /\ pc = "line 421"
    /\ Len(text) >= 2
    /\ SubSeq(text, 1, 2) = "1."
    /\ \E i \in 1..Len(text) : Char(text, i) = "?"
    /\ \E k \in 1..Len(sentences) : locals[k] # {}

\* the question marks were scored on the sentences of a text that holds one
C23_WitnessQuestion ==
    /\ pc = "line 291"
    /\ Len(sentences) >= 2
    /\ \E i \in 1..Len(text) : Char(text, i) = "?"
(***************************************************************************)
(* AutoCleanupService (services/auto_cleanup.py)                           *)
(*                                                                         *)
(* In SpecCleanup `locals` holds the fields of the service object, `pc`    *)
(* the place of the thread that calls start_auto_cleanup and               *)
(* stop_auto_cleanup, and `threads` the threads started with target        *)
(* _cleanup_loop, in start order.  A thread is a record of its place in    *)
(* _cleanup_loop (pc), of the iterations its for loop has left (remaining) *)
(* and of the number of cleanup passes it has begun while running was      *)
(* False since the last stop_auto_cleanup (begun_while_stopped, counted to *)
(* 2), which the code does not hold and the claims speak of.               *)
(***************************************************************************)

\* the cleanup_interval arguments of the constructor, written as in Python:
\* the default, a short interval, and one that int() does not accept
CleanupIntervals == {"30", "1", "None"}

\* int(self.cleanup_interval), for the intervals int() accepts
IntOfInterval == [c \in CleanupIntervals \ {"None"} |-> IF c = "30" THEN 30 ELSE 1]

\* range(60) of the wait after an error
ErrorWaitSeconds == 60

\* how many threads are started in SpecCleanup, at most
MaxCleanupThreads == 2

\* a thread at the start of _cleanup_loop
CleanupThread == [pc |-> "line 37", remaining |-> 0, begun_while_stopped |-> 0]

\* the thread is alive
IsAlive(i) == threads[i].pc # "done"

\* AutoCleanupService.__init__
InitCleanup ==
    /\ text = ""
    /\ sentences = <<>>
    /\ word_count = 0
    /\ result = <<>>
    /\ \E c \in CleanupIntervals :
          locals = [cleanup_interval |-> c, running |-> FALSE, cleanup_thread |-> 0]
    /\ pc = "idle"
    /\ GuiIdle

\* start_auto_cleanup
start_auto_cleanup ==
    /\ pc = "idle"
    /\ IF ~locals.running
       THEN /\ Len(threads) < MaxCleanupThreads
            /\ threads' = Append(threads, CleanupThread)
            /\ locals' = [locals EXCEPT !.running = TRUE, !.cleanup_thread = Len(threads) + 1]
       ELSE UNCHANGED <<threads, locals>>
    /\ UNCHANGED <<text, sentences, word_count, result, pc>>
    /\ UNCHANGED <<youtube_process_btn, pdf_process_btn, selected_pdf_path, progress_bar,
                   signals, app>>

\* stop_auto_cleanup, lines 31-32: the flag is cleared; the caller goes on
\* to join the thread if there is one
stop_auto_cleanup ==
    /\ pc = "idle"
    /\ locals' = [locals EXCEPT !.running = FALSE]
    /\ pc' = IF locals.cleanup_thread # 0 THEN "line 33" ELSE "idle"
    /\ threads' = [i \in 1..Len(threads) |->
                      [threads[i] EXCEPT !.begun_while_stopped = 0]]
    /\ UNCHANGED <<text, sentences, word_count, result>>
    /\ UNCHANGED <<youtube_process_btn, pdf_process_btn, selected_pdf_path, progress_bar,
                   signals, app>>

\* line 33: join returns because the thread has ended
JoinReturns ==
    /\ pc = "line 33"
    /\ ~IsAlive(locals.cleanup_thread)
    /\ pc' = "idle"
    /\ UNCHANGED <<text, sentences, word_count, result, locals>>
    /\ UNCHANGED guiVars

\* line 33: join returns after 2 seconds while the thread is still inside
\* cleanup_temp_files, whose duration has no bound
JoinTimesOut ==
    /\ pc = "line 33"
    /\ threads[locals.cleanup_thread].pc = "cleanup_temp_files"
    /\ pc' = "idle"
    /\ UNCHANGED <<text, sentences, word_count, result, locals>>
    /\ UNCHANGED guiVars

\* the thread i moves to the place q
Moved(i, q) == threads' = [threads EXCEPT ![i].pc = q]

\* a loop test that does not read the flag
LoopTestIgnoringFlag(i) ==
    /\ threads[i].pc = "line 37"
    /\ Moved(i, "line 39")
    /\ UNCHANGED <<text, sentences, word_count, result, locals, pc>>
    /\ UNCHANGED <<youtube_process_btn, pdf_process_btn, selected_pdf_path, progress_bar,
                   signals, app>>

\* line 37: while self.running
LoopTest(i) ==
    /\ threads[i].pc = "line 37"
    /\ Moved(i, IF locals.running THEN "line 39" ELSE "done")
    /\ UNCHANGED <<text, sentences, word_count, result, locals, pc>>
    /\ UNCHANGED <<youtube_process_btn, pdf_process_btn, selected_pdf_path, progress_bar,
                   signals, app>>

\* line 39: cleanup_temp_files is called
BeginCleanupPass(i) ==
    /\ threads[i].pc = "line 39"
    /\ threads' = [threads EXCEPT
          ![i].pc = "cleanup_temp_files",
          ![i].begun_while_stopped =
              IF locals.running \/ @ = 2 THEN @ ELSE @ + 1]
    /\ UNCHANGED <<text, sentences, word_count, result, locals, pc>>
    /\ UNCHANGED <<youtube_process_btn, pdf_process_btn, selected_pdf_path, progress_bar,
                   signals, app>>

\* lines 54-132: cleanup_temp_files returns; it catches every Exception
CleanupPassReturns(i) ==
    /\ threads[i].pc = "cleanup_temp_files"
    /\ Moved(i, "line 42")
    /\ UNCHANGED <<text, sentences, word_count, result, locals, pc>>
    /\ UNCHANGED <<youtube_process_btn, pdf_process_btn, selected_pdf_path, progress_bar,
                   signals, app>>

\* line 42: range(int(self.cleanup_interval)) is made, or int() raises and
\* the handler of line 47 makes range(60)
EnterWait(i) ==
    /\ threads[i].pc = "line 42"
    /\ threads' = [threads EXCEPT
          ![i].pc = IF locals.cleanup_interval = "None" THEN "line 50" ELSE "line 43",
          ![i].remaining = IF locals.cleanup_interval = "None" THEN ErrorWaitSeconds
                           ELSE IntOfInterval[locals.cleanup_interval]]
    /\ UNCHANGED <<text, sentences, word_count, result, locals, pc>>
    /\ UNCHANGED <<youtube_process_btn, pdf_process_btn, selected_pdf_path, progress_bar,
                   signals, app>>

\* lines 42-45 and 49-52: the next iteration of the for loop; the loop ends
\* when the range is used up or the flag is found cleared, else one second
\* of sleep begins
NextSecond(i) ==
    /\ threads[i].pc \in {"line 43", "line 50"}
    /\ threads' = [threads EXCEPT
          ![i].pc = IF threads[i].remaining = 0 \/ ~locals.running THEN "line 37"
                    ELSE IF threads[i].pc = "line 43" THEN "line 45" ELSE "line 52",
          ![i].remaining = IF threads[i].remaining = 0 \/ ~locals.running THEN 0
                           ELSE @ - 1]
    /\ UNCHANGED <<text, sentences, word_count, result, locals, pc>>
    /\ UNCHANGED <<youtube_process_btn, pdf_process_btn, selected_pdf_path, progress_bar,
                   signals, app>>

\* lines 45 and 52: time.sleep(1) returns
SleepReturns(i) ==
    /\ threads[i].pc \in {"line 45", "line 52"}
    /\ Moved(i, IF threads[i].pc = "line 45" THEN "line 43" ELSE "line 50")
    /\ UNCHANGED <<text, sentences, word_count, result, locals, pc>>
    /\ UNCHANGED <<youtube_process_btn, pdf_process_btn, selected_pdf_path, progress_bar,
                   signals, app>>

\* a step of the thread i, if it has been started
CleanupLoopStep(i) ==
    /\ i <= Len(threads)
    /\ \/ LoopTest(i)
       \/ BeginCleanupPass(i)
       \/ CleanupPassReturns(i)
       \/ EnterWait(i)
       \/ NextSecond(i)
       \/ SleepReturns(i)

NextCleanup ==
    \/ start_auto_cleanup
    \/ stop_auto_cleanup
    \/ JoinReturns
    \/ JoinTimesOut
    \/ \E i \in 1..Len(threads) : LoopTest(i)
    \/ \E i \in 1..Len(threads) : BeginCleanupPass(i)
    \/ \E i \in 1..Len(threads) : CleanupPassReturns(i)
    \/ \E i \in 1..Len(threads) : EnterWait(i)
    \/ \E i \in 1..Len(threads) : NextSecond(i)
    \/ \E i \in 1..Len(threads) : SleepReturns(i)

SpecCleanup == InitCleanup /\ [][NextCleanup]_vars

\* every started thread that can take a step eventually takes one
FairSpecCleanup ==
    SpecCleanup /\ \A i \in 1..MaxCleanupThreads : WF_vars(CleanupLoopStep(i))

(***************************************************************************)
(* C24                                                                     *)
(***************************************************************************)

\* C24: under any interleaving of start_auto_cleanup and stop_auto_cleanup
\* calls at most one _cleanup_loop thread is alive at any time.
C24_AtMostOneCleanupLoop ==
    Cardinality({i \in 1..Len(threads) : IsAlive(i)}) <= 1

(***************************************************************************)
(* C25                                                                     *)
(***************************************************************************)

\* C25 as stated, its part about passes: no thread begins a
\* cleanup_temp_files pass while running is False.
C25_Original ==
    \A i \in 1..Len(threads) : threads[i].begun_while_stopped = 0

\* C25, amended: after stop_auto_cleanup has set running to False, a cleanup
\* loop begins at most one more cleanup_temp_files pass while the flag stays
\* False (one, when it had passed the test of line 37 before the flag was
\* cleared), and if start_auto_cleanup is not called again every loop
\* eventually exits.
C25_LoopExitsAfterStop ==
    /\ [](\A i \in 1..Len(threads) : threads[i].begun_while_stopped <= 1)
    /\ \A i \in 1..MaxCleanupThreads :
          <>[](~locals.running) => <>[](i <= Len(threads) => ~IsAlive(i))

\* running is False, and a loop that began one pass after the flag was
\* cleared has exited
C25_Witness ==
    /\ ~locals.running
    /\ \E i \in 1..Len(threads) :
          /\ ~IsAlive(i)
          /\ threads[i].begun_while_stopped = 1
(***************************************************************************)
(* ProgressManager (services/progress_manager.py)                          *)
(*                                                                         *)
(* In SpecProgress `locals` is self.progress_data, a function from the     *)
(* tracked process ids to their records, `pc` the name of the last method  *)
(* called, and `result` the update_progress calls made for the process     *)
(* since its start_progress, in call order, which the code does not hold   *)
(* and the claims speak of.  The readings of the clock are left out of the *)
(* records, except that an entry of detailed_steps carries as its          *)
(* elapsed_time the number of updates made since the start, and            *)
(* cleanup_after is kept as "set" or "unset".  A current_progress is a     *)
(* fraction num / den, as the division of line 39 makes one.               *)
(***************************************************************************)

\* the process id the calls of SpecProgress are made for
ProcessIds == {"p"}

\* the step arguments of update_progress, the total_steps arguments of
\* start_progress and the progress_percent arguments that are not None
StepInputs == {-1, 5}
TotalStepsInputs == {4, 100}
PercentInputs == {-5, 50, 150}

\* how many update_progress calls are made after one start_progress, at most
MaxUpdates == 11

\* the number of detailed steps kept
MaxDetailedSteps == 10

Min(a, b) == IF a < b THEN a ELSE b
Max(a, b) == IF a > b THEN a ELSE b

\* a current_progress without the clamps: the percent given, or 100 times
\* step by total_steps
ProgressUnclamped(step, total_steps, has_percent, progress_percent) ==
    IF has_percent THEN [num |-> progress_percent, den |-> 1]
    ELSE [num |-> step * 100, den |-> total_steps]

\* lines 35-39: min(100, max(0, progress_percent)) when a percent is given,
\* else min(100, (step / total_steps) * 100)
ProgressOf(step, total_steps, has_percent, progress_percent) ==
    IF has_percent
    THEN [num |-> Min(100, Max(0, progress_percent)), den |-> 1]
    ELSE IF step * 100 > 100 * total_steps
         THEN [num |-> 100, den |-> 1]
         ELSE [num |-> step * 100, den |-> total_steps]

\* a cut that keeps the first 10 entries
KeepFirst(detailed_steps) ==
    IF Len(detailed_steps) > MaxDetailedSteps
    THEN SubSeq(detailed_steps, 1, MaxDetailedSteps)
    ELSE detailed_steps

\* lines 50-51: detailed_steps[-10:] when there are more than 10 entries
KeepLast(detailed_steps) ==
    IF Len(detailed_steps) > MaxDetailedSteps
    THEN SubSeq(detailed_steps, Len(detailed_steps) - MaxDetailedSteps + 1,
                Len(detailed_steps))
    ELSE detailed_steps

\* ProgressManager.__init__
InitProgress ==
    /\ text = ""
    /\ sentences = <<>>
    /\ word_count = 0
    /\ result = <<>>
    /\ locals = <<>>
    /\ pc = "__init__"
    /\ GuiIdle

\* start_progress(process_id, total_steps)
start_progress(process_id, total_steps) ==
    /\ locals' = (process_id :> [current_step |-> 0,
                                 total_steps |-> total_steps,
                                 status |-> "starting",
                                 message |-> "Initializing...",
                                 detailed_steps |-> <<>>,
                                 current_progress |-> [num |-> 0, den |-> 1],
                                 cleanup_after |-> "unset"]) @@ locals
    /\ result' = <<>>
    /\ pc' = "start_progress"
    /\ UNCHANGED <<text, sentences, word_count>>
    /\ UNCHANGED guiVars

\* update_progress(process_id, step, message, progress_percent); has_percent
\* is FALSE when progress_percent is None
update_progress_call(process_id, step, message, has_percent, progress_percent) ==
    /\ Len(result) < MaxUpdates
    /\ pc' = "update_progress"
    /\ IF process_id \notin DOMAIN locals
       THEN UNCHANGED <<locals, result>>
       ELSE LET data == locals[process_id]
                entry == [step |-> step, message |-> message,
                          elapsed_time |-> Len(result) + 1]
            IN  /\ locals' = [locals EXCEPT ![process_id] =
                      [data EXCEPT
                          !.current_step = step,
                          !.message = message,
                          !.status = "processing",
                          !.current_progress =
                              ProgressOf(step, data.total_steps, has_percent, progress_percent),
                          !.detailed_steps = KeepLast(Append(data.detailed_steps, entry))]]
                /\ result' = Append(result, entry)
    /\ UNCHANGED <<text, sentences, word_count>>
    /\ UNCHANGED guiVars

\* complete_progress(process_id)
complete_progress(process_id) ==
    /\ pc' = "complete_progress"
    /\ IF process_id \notin DOMAIN locals
       THEN UNCHANGED locals
       ELSE locals' = [locals EXCEPT ![process_id] =
                [@ EXCEPT !.current_progress = [num |-> 100, den |-> 1],
                          !.status = "completed",
                          !.message = "Processing completed successfully"]]
    /\ UNCHANGED <<text, sentences, word_count, result>>
    /\ UNCHANGED guiVars

\* set_error(process_id, error_message)
set_error(process_id, error_message) ==
    /\ pc' = "set_error"
    /\ IF process_id \notin DOMAIN locals
       THEN UNCHANGED locals
       ELSE locals' = [locals EXCEPT ![process_id] =
                [@ EXCEPT !.status = "error",
                          !.message = "Error: " \o error_message]]
    /\ UNCHANGED <<text, sentences, word_count, result>>
    /\ UNCHANGED guiVars

\* a cleanup that takes the record back to 'starting'
cleanup_progress_restarting(process_id) ==
    /\ pc' = "cleanup_progress"
    /\ IF process_id \in DOMAIN locals /\ locals[process_id].status \in {"completed", "error"}
       THEN locals' = [locals EXCEPT ![process_id] =
                [@ EXCEPT !.cleanup_after = "set", !.status = "starting"]]
       ELSE UNCHANGED locals
    /\ UNCHANGED <<text, sentences, word_count, result>>
    /\ UNCHANGED guiVars

\* cleanup_progress(process_id)
cleanup_progress(process_id) ==
    /\ pc' = "cleanup_progress"
    /\ IF process_id \in DOMAIN locals /\ locals[process_id].status \in {"completed", "error"}
       THEN locals' = [locals EXCEPT ![process_id] = [@ EXCEPT !.cleanup_after = "set"]]
       ELSE UNCHANGED locals
    /\ UNCHANGED <<text, sentences, word_count, result>>
    /\ UNCHANGED guiVars

NextProgress ==
    \/ \E id \in ProcessIds : \E total \in TotalStepsInputs : start_progress(id, total)
    \/ \E id \in ProcessIds : \E step \in StepInputs :
          update_progress_call(id, step, "working", FALSE, 0)
    \/ \E id \in ProcessIds : \E step \in StepInputs : \E percent \in PercentInputs :
          update_progress_call(id, step, "working", TRUE, percent)
    \/ \E id \in ProcessIds : complete_progress(id)
    \/ \E id \in ProcessIds : set_error(id, "failed")
    \/ \E id \in ProcessIds : cleanup_progress(id)

SpecProgress == InitProgress /\ [][NextProgress]_vars

(***************************************************************************)
(* C26                                                                     *)
(***************************************************************************)

\* the fraction lies within 0..100
WithinPercent(f) == f.den >= 1 /\ 0 <= f.num /\ f.num <= 100 * f.den

\* C26 as stated: for a tracked process with total_steps >= 1,
\* current_progress stays within 0..100 for any integer step and any
\* progress_percent.
C26_Original ==
    \A id \in DOMAIN locals : WithinPercent(locals[id].current_progress)

\* C26, amended: for a tracked process with total_steps >= 1,
\* current_progress never exceeds 100; it is at least 0 after
\* start_progress, complete_progress and an update_progress with a percent
\* or with a step that is not negative, and after an update_progress without
\* percent and with a negative step it is the negative 100 * step / total_steps.
C26_ProgressWithinBoundsForStepsFromZero ==
    \A id \in DOMAIN locals :
        LET data == locals[id]
            f == data.current_progress
        IN  /\ data.total_steps >= 1
            /\ f.den >= 1
            /\ f.num <= 100 * f.den
            /\ f.num < 0 =>
                  /\ result # <<>>
                  /\ data.current_step < 0
                  /\ f.num * data.total_steps = 100 * data.current_step * f.den
            /\ data.current_step >= 0 => WithinPercent(f)

\* an update with step 5 of 4 and no percent was clamped to 100 after an
\* update with a percent of 150 and one with a percent below 0
C26_Witness ==
    /\ pc = "update_progress"
    /\ "p" \in DOMAIN locals
    /\ Len(result) >= 3
    /\ locals["p"].total_steps = 4
    /\ locals["p"].current_step = 5
    /\ locals["p"].current_progress = [num |-> 100, den |-> 1]
    /\ locals["p"].status = "processing"

(***************************************************************************)
(* C27                                                                     *)
(***************************************************************************)

\* C27: detailed_steps never holds more than 10 entries and always equals
\* the most recent min(10, n) of the n updates made since start_progress,
\* in call order.
C27_LastTenUpdates ==
    \A id \in DOMAIN locals :
        LET steps == locals[id].detailed_steps
            n == Len(result)
            kept == IF n < 10 THEN n ELSE 10
        IN  /\ Len(steps) <= 10
            /\ Len(steps) = kept
            /\ \A k \in 1..kept : steps[k] = result[n - kept + k]

\* 11 updates were made since start_progress
C27_Witness ==
    /\ "p" \in DOMAIN locals
    /\ Len(result) = 11
    /\ Len(locals["p"].detailed_steps) = 10
    /\ locals["p"].detailed_steps[1].elapsed_time = 2

(***************************************************************************)
(* C28                                                                     *)
(***************************************************************************)

\* the status of the process p, "not_found" while it is not tracked
StatusOf(data) == IF "p" \in DOMAIN data THEN data["p"].status ELSE "not_found"

\* C28 as stated: once the status is 'completed' or 'error' it stays what it
\* is under every later update_progress, complete_progress, set_error and
\* cleanup_progress call; only start_progress resets it.
C28_Original ==
    [][StatusOf(locals) \in {"completed", "error"} /\ pc' # "start_progress"
           => StatusOf(locals') = StatusOf(locals)]_vars

\* C28, amended: once the status is 'completed' or 'error', cleanup_progress
\* leaves it as it is, complete_progress makes it 'completed', set_error
\* makes it 'error', update_progress makes it 'processing' and start_progress
\* makes it 'starting'.
C28_TerminalStatusKeptByCleanupOnly ==
    [][StatusOf(locals) \in {"completed", "error"} =>
           StatusOf(locals') =
               CASE pc' = "cleanup_progress" -> StatusOf(locals)
                 [] pc' = "complete_progress" -> "completed"
                 [] pc' = "set_error" -> "error"
                 [] pc' = "update_progress" -> "processing"
                 [] pc' = "start_progress" -> "starting"]_vars

\* update_progress was called for a process whose cleanup had been set
\* after it was completed
C28_Witness ==
    /\ pc = "update_progress"
    /\ "p" \in DOMAIN locals
    /\ locals["p"].cleanup_after = "set"
    /\ locals["p"].status = "processing"
(***************************************************************************)
(* C29                                                                     *)
(***************************************************************************)

TerminalSignals == {"processing_completed", "processing_failed"}

\* in this step thread i emits a signal of the given names: the signal is
\* put at the end of the queue of the main window
Emits(i, names) ==
    /\ Len(signals') = Len(signals) + 1
    /\ signals'[Len(signals')].thread = i
    /\ signals'[Len(signals')].signal \in names

\* thread i after the step
TerminalEmittedNext(i) ==
    \/ threads'[i].phase = "finished"
    \/ threads'[i].phase = "try" /\ CurrentStep(threads'[i]).op = "cleanup"

\* C29: each run of a ProcessingThread emits exactly one terminal signal,
\* processing_completed or processing_failed, whichever step raises: a
\* terminal signal is emitted only by a run that has emitted none, a run
\* that has emitted one emits no signal any more, progress_updated included,
\* and no run ends without having emitted one.
C29_ExactlyOneTerminalSignal ==
    [][\A i \in 1..Len(threads) :
          /\ Emits(i, TerminalSignals) => ~TerminalEmitted(i) /\ TerminalEmittedNext(i)
          /\ ~TerminalEmitted(i) /\ TerminalEmittedNext(i) => Emits(i, TerminalSignals)
          /\ TerminalEmitted(i) =>
                /\ TerminalEmittedNext(i)
                /\ ~Emits(i, TerminalSignals \cup {"progress_updated"})
          /\ threads'[i].phase = "finished" => TerminalEmitted(i) \/ Emits(i, TerminalSignals)]_vars

\* a run has ended whose transcribe_video raised: its progress_updated(40)
\* and its processing_failed are in the queue, in this order
C29_Witness ==
    \E i \in 1..Len(threads) : \E a, b \in 1..Len(signals) :
        /\ threads[i].phase = "finished"
        /\ a < b
        /\ signals[a] = [thread |-> i, signal |-> "progress_updated", value |-> 40]
        /\ signals[b].thread = i
        /\ signals[b].signal = "processing_failed"
(***************************************************************************)
(* _chunk_text (services/pdf_processor.py)                                 *)
(***************************************************************************)

\* self.max_chunk_size, set in PDFProcessor.__init__
max_chunk_size == 4000

\* ' '.join(words)
JoinWithSpaces(words) ==
    Join([k \in 1..(2 * Len(words) - 1) |->
             IF k % 2 = 1 THEN words[(k + 1) \div 2] ELSE " "])

RECURSIVE ChunkLoop(_, _, _)
\* the for loop of _chunk_text from word k on; state holds chunks,
\* current_chunk and current_length
ChunkLoop(words, k, state) ==
    IF k > Len(words) THEN state
    ELSE LET word == words[k]
         IN  IF state.current_length + Len(word) + 1 > max_chunk_size
             THEN IF state.current_chunk # <<>>
                  THEN ChunkLoop(words, k + 1,
                           [chunks |-> Append(state.chunks, JoinWithSpaces(state.current_chunk)),
                            current_chunk |-> <<word>>,
                            current_length |-> Len(word)])
                  ELSE ChunkLoop(words, k + 1, state)
             ELSE ChunkLoop(words, k + 1,
                      [chunks |-> state.chunks,
                       current_chunk |-> Append(state.current_chunk, word),
                       current_length |-> state.current_length + Len(word) + 1])

\* PDFProcessor._chunk_text
_chunk_text(t) ==
    LET end == ChunkLoop(split(t), 1,
                         [chunks |-> <<>>, current_chunk |-> <<>>, current_length |-> 0])
    IN  IF end.current_chunk # <<>>
        THEN Append(end.chunks, JoinWithSpaces(end.current_chunk))
        ELSE end.chunks

\* a word of n letters
LongWord(n) == Join([k \in 1..n |-> "x"])

\* the pieces the texts of SpecChunks are made of: two short words, a word
\* that fills a chunk with one short word before it, a word of
\* max_chunk_size letters and a word of one letter more, each followed by
\* whitespace, and a run of whitespace
ChunkBlocks ==
    {"ab ", "cd\n", LongWord(max_chunk_size - 4) \o " ",
     LongWord(max_chunk_size) \o " ", LongWord(max_chunk_size + 1) \o " ", " \n"}

\* how many pieces a text of SpecChunks is made of, at most
MaxChunkBlocks == 3

ChunkTexts == {Concat(p, Len(p)) : p \in SeqsUpTo(ChunkBlocks, MaxChunkBlocks)}

InitChunks ==
    /\ text \in ChunkTexts
    /\ sentences = <<>>
    /\ word_count = 0
    /\ result = <<>>
    /\ locals = <<>>
    /\ pc = "input"
    /\ GuiIdle

CallChunkText ==
    /\ pc = "input"
    /\ pc' = "_chunk_text"
    /\ result' = _chunk_text(text)
    /\ locals' = <<>>
    /\ UNCHANGED <<text, sentences, word_count>>
    /\ UNCHANGED guiVars

NextChunks == CallChunkText

SpecChunks == InitChunks /\ [][NextChunks]_vars

(***************************************************************************)
(* C30                                                                     *)
(***************************************************************************)

RECURSIVE WordsOfChunks(_, _)
\* the words of the first n chunks, in chunk order
WordsOfChunks(chunks, n) ==
    IF n = 0 THEN <<>> ELSE WordsOfChunks(chunks, n - 1) \o split(chunks[n])

\* C30: _chunk_text loses no content: the words of all chunks, concatenated
\* in chunk order, are the whitespace-split words of the input, for every
\* input, one whose first word is longer than max_chunk_size included.
C30_ChunksKeepEveryWord ==
    pc = "_chunk_text" => WordsOfChunks(result, Len(result)) = split(text)

====
